---------------------------- MODULE Spec2Model ----------------------------
(***************************************************************************)
(* A model of SpriteMesh and Sprite (facets_dive/lib/sprite-mesh.ts).      *)
(*                                                                         *)
(* Numbers.  A JavaScript number is modelled as an exact rational <<n, d>> *)
(* in lowest terms with d > 0.  Two values have d = 0: NaN (also the value *)
(* `undefined` takes in arithmetic) and TooBig, the result of a            *)
(* computation the model's integers cannot carry.  An action whose result  *)
(* would be TooBig is not taken (see Carried).  Arithmetic on doubles is   *)
(* taken to be exact; what the typed arrays do on a store is modelled as   *)
(* it is: a Float32Array rounds to 24 significant bits (Fround), a         *)
(* Uint8Array truncates and wraps modulo 256 (ToUint8).                    *)
(***************************************************************************)
EXTENDS Integers, Sequences, FiniteSets, TLC

\* ------------------------------------------------------------------ bounds

\* Number of sprites the mesh is constructed with (constructor argument).
Capacity == 2

\* Largest number of operations of a run that write or read the mesh.
MaxOps == 1

\* Largest number of createSprite calls of a run.
MaxCreates == 3

\* Largest number of calls that write the texture of a sprite in a run of
\* such calls.
MaxSwitches == 2

\* Largest number of rebase calls in a run of such calls.
MaxRebases == 2

\* ------------------------------------------------- layout of the data arrays

VERTICES_PER_SPRITE == 4
AV == 0
BV == 1
CV == 2
DV == 3

POSITIONS_PER_SPRITE == 12
AX == 0
AY == 1
AZ == 2
BX == 3
\* BY in the source; BY is a reserved word of TLA+.
BY_ == 4
BZ == 5
CX == 6
CY == 7
CZ == 8
DX == 9
DY == 10
DZ == 11

COLORS_PER_SPRITE == 16
AR == 0
AG == 1
AB == 2
AA == 3
BR == 4
BG == 5
BB == 6
BA == 7
CR == 8
CG == 9
CB == 10
CA == 11
DR == 12
DG == 13
DB == 14
DA == 15

DEFAULT_TEXTURE_INDEX == 0
SPRITE_TEXTURE_INDEX == 1

\* ------------------------------------------------------------------ numbers

\* Significant bits of a 32-bit float (an element of a Float32Array).
Float32Bits == 24

\* NaN; TooBig, a result the model's integers cannot carry; and undefined,
\* what a read outside a typed array returns and a missing argument is.
NaN == <<0, 0>>
TooBig == <<1, 0>>
Undefined == <<2, 0>>

IsNum(q) == q[2] # 0

Abs(x) == IF x < 0 THEN -x ELSE x

RECURSIVE GCD(_, _)
GCD(a, b) == IF b = 0 THEN a ELSE GCD(b, a % b)

RECURSIVE Pow2Rec(_)
Pow2Rec(k) == IF k = 0 THEN 1 ELSE 2 * Pow2Rec(k - 1)

Pow2Table == [k \in 0..30 |-> Pow2Rec(k)]

\* 2^k, for k in 0..30.
Pow2(k) == Pow2Table[k]

\* The largest magnitude the model's arithmetic carries.
Limit == Pow2(30) - 1

\* a * b stays within Limit.
MulFits(a, b) == a = 0 \/ b = 0 \/ Abs(a) <= Limit \div Abs(b)

\* The rational n / d (d > 0) in lowest terms.
Norm(n, d) ==
    IF n = 0 THEN <<0, 1>>
    ELSE LET g == GCD(Abs(n), d) IN <<n \div g, d \div g>>

Num(n) == <<n, 1>>

\* The result of arithmetic on an operand that is no number: NaN (undefined
\* counts as NaN in arithmetic), unless the model could not carry an operand.
Bad(p, q) == IF p = TooBig \/ q = TooBig THEN TooBig ELSE NaN

RNeg(p) == IF IsNum(p) THEN <<-p[1], p[2]>> ELSE Bad(p, p)

RMul(p, q) ==
    IF ~IsNum(p) \/ ~IsNum(q) THEN Bad(p, q)
    ELSE IF p[1] = 0 \/ q[1] = 0 THEN <<0, 1>>
    ELSE LET g1 == GCD(Abs(p[1]), q[2])
             g2 == GCD(Abs(q[1]), p[2])
             a == p[1] \div g1
             b == q[1] \div g2
             c == p[2] \div g2
             d == q[2] \div g1
         IN IF MulFits(a, b) /\ MulFits(c, d) THEN <<a * b, c * d>> ELSE TooBig

RAdd(p, q) ==
    IF ~IsNum(p) \/ ~IsNum(q) THEN Bad(p, q)
    ELSE LET g == GCD(p[2], q[2])
             fp == q[2] \div g
             fq == p[2] \div g
         IN IF MulFits(p[1], fp) /\ MulFits(q[1], fq) /\ MulFits(p[2], fp)
            THEN LET n == p[1] * fp + q[1] * fq
                 IN IF Abs(n) <= Limit THEN Norm(n, p[2] * fp) ELSE TooBig
            ELSE TooBig

RSub(p, q) == RAdd(p, RNeg(q))

\* p / q; a division by zero gives no number (Infinity and NaN are not told
\* apart).
RDiv(p, q) ==
    IF ~IsNum(p) \/ ~IsNum(q) THEN Bad(p, q)
    ELSE IF q[1] = 0 THEN NaN
    ELSE RMul(p, IF q[1] < 0 THEN <<-q[2], -q[1]>> ELSE <<q[2], q[1]>>)

\* a/b < c/d for b, d > 0, by the continued-fraction expansion: no product is
\* formed, so it never overflows.
RECURSIVE FracLess(_, _, _, _)
FracLess(a, b, c, d) ==
    LET q1 == a \div b
        q2 == c \div d
        r1 == a % b
        r2 == c % d
    IN IF q1 # q2 THEN q1 < q2
       ELSE IF r2 = 0 THEN FALSE
       ELSE IF r1 = 0 THEN TRUE
       ELSE FracLess(d, r2, b, r1)

\* Comparisons: every comparison with NaN is false, as in JavaScript.
RLt(p, q) == IsNum(p) /\ IsNum(q) /\ FracLess(p[1], p[2], q[1], q[2])
RLe(p, q) == IsNum(p) /\ IsNum(q) /\ ~FracLess(q[1], q[2], p[1], p[2])
RGe(p, q) == RLe(q, p)
RGt(p, q) == RLt(q, p)

\* The integer part, rounding toward zero.
Trunc(q) == IF q[1] >= 0 THEN q[1] \div q[2] ELSE -((-q[1]) \div q[2])

\* What a Uint8Array element holds after q is stored in it (ToUint8): the
\* integer part modulo 256; NaN is stored as 0.
ToUint8(q) == IF IsNum(q) THEN Trunc(q) % 256 ELSE 0

\* The mark a Uint8Array element of the model holds where the value stored
\* was one the model could not carry (see Carried).
NotCarried == 0 - 1

RECURSIVE IsPow2(_)
IsPow2(d) == d = 1 \/ (d > 1 /\ d % 2 = 0 /\ IsPow2(d \div 2))

\* Long division: s more binary digits of the quotient q with remainder r of
\* a division by d.  Result <<quotient, remainder>>.
RECURSIVE Digits(_, _, _, _)
Digits(q, r, d, s) ==
    IF s = 0 THEN <<q, r>>
    ELSE IF 2 * r >= d THEN Digits(2 * q + 1, 2 * r - d, d, s - 1)
    ELSE Digits(2 * q, 2 * r, d, s - 1)

\* Round to nearest, ties to even: quotient q, remainder r, divisor d.
RoundEven(q, r, d) ==
    IF 2 * r > d \/ (2 * r = d /\ q % 2 = 1) THEN q + 1 ELSE q

\* The exponent e >= 0 with d * 2^e <= a < d * 2^(e+1), for a >= d.
RECURSIVE ExpUp(_, _, _)
ExpUp(a, d, e) == IF (a \div Pow2(e + 1)) >= d THEN ExpUp(a, d, e + 1) ELSE e

\* The least f > 0 with a * 2^f >= d, for 0 < a < d.
RECURSIVE ExpDown(_, _, _)
ExpDown(a, d, f) ==
    IF a >= ((d + Pow2(f) - 1) \div Pow2(f)) THEN f ELSE ExpDown(a, d, f + 1)

\* Math.fround: the 32-bit float nearest to q (exponent range not modelled).
Fround(q) ==
    IF ~IsNum(q) THEN Bad(q, q)
    ELSE IF q[1] = 0 THEN q
    ELSE IF IsPow2(q[2]) /\ Abs(q[1]) < Pow2(Float32Bits) THEN q
    ELSE LET a == Abs(q[1])
             d == q[2]
             sgn == IF q[1] < 0 THEN -1 ELSE 1
         IN IF a >= d
            THEN LET e == ExpUp(a, d, 0)
                     s == (Float32Bits - 1) - e
                 IN IF s >= 0
                    THEN IF d > Limit \div 2 \/ s > 30 THEN TooBig
                         ELSE LET qr == Digits(a \div d, a % d, d, s)
                                  m == RoundEven(qr[1], qr[2], d)
                              IN Norm(sgn * m, Pow2(s))
                    ELSE LET dd == d * Pow2(-s)
                             m == RoundEven(a \div dd, a % dd, dd)
                         IN IF MulFits(m, Pow2(-s))
                            THEN <<sgn * m * Pow2(-s), 1>> ELSE TooBig
            ELSE LET f == ExpDown(a, d, 1)
                     s == (Float32Bits - 1) + f
                 IN IF d > Limit \div 2 \/ s > 30 THEN TooBig
                    ELSE LET qr == Digits(0, a, d, s)
                             m == RoundEven(qr[1], qr[2], d)
                         IN Norm(sgn * m, Pow2(s))


\* ------------------------------------------------------------------- state

VARIABLES
    mesh,       \* the SpriteMesh: its fields, data arrays and needsUpdate flags
    sprites,    \* the Sprite handles createSprite has returned, in order
    last,       \* the last call: its name, arguments, locals and outcome
    ops,        \* number of calls made so far
    pc,         \* position of the caller in a scripted scenario
    script,     \* the values the caller of a scripted scenario works with
    shown       \* what the renderer has drawn for that caller

vars == <<mesh, sprites, last, ops, pc, script, shown>>

\* ------------------------------------------------------------ typed arrays

\* new Float32Array(n): n zeros.
Float32Array(n) == [k \in 0..(n - 1) |-> Num(0)]

\* new Uint8Array(n): n zeros.
Uint8Array(n) == [k \in 0..(n - 1) |-> 0]

\* data[k] of a Float32Array: undefined outside the array.
ReadF32(data, k) == IF k \in DOMAIN data THEN data[k] ELSE Undefined

\* data[k] of a Uint8Array: undefined outside the array.
ReadU8(data, k) == IF k \in DOMAIN data THEN Num(data[k]) ELSE Undefined

\* data[k] = v on a Float32Array: v rounded to a 32-bit float; an index
\* outside the array is ignored.
WriteF32(data, k, v) ==
    IF k \in DOMAIN data THEN [data EXCEPT ![k] = Fround(v)] ELSE data


\* WriteU8 that rounds to the nearest integer, halves upward.
WriteU8_Rounds(data, k, v) ==
    IF k \in DOMAIN data
    THEN [data EXCEPT ![k] = IF v = TooBig THEN NotCarried
                             ELSE ToUint8(RAdd(v, <<1, 2>>))]
    ELSE data

\* data[k] = v on a Uint8Array: v truncated modulo 256; an index outside the
\* array is ignored.
WriteU8(data, k, v) ==
    IF k \in DOMAIN data
    THEN [data EXCEPT ![k] = IF v = TooBig THEN NotCarried ELSE ToUint8(v)]
    ELSE data

\* --------------------------------------------------- getters and setters
\* Each takes the mesh m it is called on; a setter gives the mesh after it.

getX(m, spriteIndex) ==
    LET positionOffsetIndex == spriteIndex * POSITIONS_PER_SPRITE
    IN ReadF32(m.positionData, positionOffsetIndex + AX)

setX(m, spriteIndex, x) ==
    LET positionOffsetIndex == spriteIndex * POSITIONS_PER_SPRITE
        d1 == WriteF32(m.positionData, positionOffsetIndex + AX, x)
        d2 == WriteF32(d1, positionOffsetIndex + BX, RAdd(x, m.spriteWidth))
        d3 == WriteF32(d2, positionOffsetIndex + CX, RAdd(x, m.spriteWidth))
        d4 == WriteF32(d3, positionOffsetIndex + DX, x)
    IN [m EXCEPT !.positionData = d4, !.needsUpdate.position = TRUE]

getY(m, spriteIndex) ==
    LET positionOffsetIndex == spriteIndex * POSITIONS_PER_SPRITE
    IN ReadF32(m.positionData, positionOffsetIndex + AY)

setY(m, spriteIndex, y) ==
    LET positionOffsetIndex == spriteIndex * POSITIONS_PER_SPRITE
        d1 == WriteF32(m.positionData, positionOffsetIndex + AY, y)
        d2 == WriteF32(d1, positionOffsetIndex + BY_, y)
        d3 == WriteF32(d2, positionOffsetIndex + CY, RAdd(y, m.spriteHeight))
        d4 == WriteF32(d3, positionOffsetIndex + DY, RAdd(y, m.spriteHeight))
    IN [m EXCEPT !.positionData = d4, !.needsUpdate.position = TRUE]

getZ(m, spriteIndex) ==
    LET positionOffsetIndex == spriteIndex * POSITIONS_PER_SPRITE
    IN ReadF32(m.positionData, positionOffsetIndex + AZ)

setZ(m, spriteIndex, z) ==
    LET positionOffsetIndex == spriteIndex * POSITIONS_PER_SPRITE
        d1 == WriteF32(m.positionData, positionOffsetIndex + AZ, z)
        d2 == WriteF32(d1, positionOffsetIndex + BZ, z)
        d3 == WriteF32(d2, positionOffsetIndex + CZ, z)
        d4 == WriteF32(d3, positionOffsetIndex + DZ, z)
    IN [m EXCEPT !.positionData = d4, !.needsUpdate.position = TRUE]

getR(m, spriteIndex) ==
    LET colorOffsetIndex == spriteIndex * COLORS_PER_SPRITE
    IN ReadU8(m.colorData, colorOffsetIndex + AR)

setR(m, spriteIndex, r) ==
    LET colorOffsetIndex == spriteIndex * COLORS_PER_SPRITE
        d1 == WriteU8(m.colorData, colorOffsetIndex + AR, r)
        d2 == WriteU8(d1, colorOffsetIndex + BR, r)
        d3 == WriteU8(d2, colorOffsetIndex + CR, r)
        d4 == WriteU8(d3, colorOffsetIndex + DR, r)
    IN [m EXCEPT !.colorData = d4, !.needsUpdate.color = TRUE]

getG(m, spriteIndex) ==
    LET colorOffsetIndex == spriteIndex * COLORS_PER_SPRITE
    IN ReadU8(m.colorData, colorOffsetIndex + AG)

setG(m, spriteIndex, g) ==
    LET colorOffsetIndex == spriteIndex * COLORS_PER_SPRITE
        d1 == WriteU8(m.colorData, colorOffsetIndex + AG, g)
        d2 == WriteU8(d1, colorOffsetIndex + BG, g)
        d3 == WriteU8(d2, colorOffsetIndex + CG, g)
        d4 == WriteU8(d3, colorOffsetIndex + DG, g)
    IN [m EXCEPT !.colorData = d4, !.needsUpdate.color = TRUE]

getB(m, spriteIndex) ==
    LET colorOffsetIndex == spriteIndex * COLORS_PER_SPRITE
    IN ReadU8(m.colorData, colorOffsetIndex + AB)

setB(m, spriteIndex, b) ==
    LET colorOffsetIndex == spriteIndex * COLORS_PER_SPRITE
        d1 == WriteU8(m.colorData, colorOffsetIndex + AB, b)
        d2 == WriteU8(d1, colorOffsetIndex + BB, b)
        d3 == WriteU8(d2, colorOffsetIndex + CB, b)
        d4 == WriteU8(d3, colorOffsetIndex + DB, b)
    IN [m EXCEPT !.colorData = d4, !.needsUpdate.color = TRUE]

getA(m, spriteIndex) ==
    LET colorOffsetIndex == spriteIndex * COLORS_PER_SPRITE
    IN ReadU8(m.colorData, colorOffsetIndex + AA)

setA(m, spriteIndex, a) ==
    LET colorOffsetIndex == spriteIndex * COLORS_PER_SPRITE
        d1 == WriteU8(m.colorData, colorOffsetIndex + AA, a)
        d2 == WriteU8(d1, colorOffsetIndex + BA, a)
        d3 == WriteU8(d2, colorOffsetIndex + CA, a)
        d4 == WriteU8(d3, colorOffsetIndex + DA, a)
    IN [m EXCEPT !.colorData = d4, !.needsUpdate.color = TRUE]

getBaseX(m, spriteIndex) ==
    LET positionOffsetIndex == spriteIndex * POSITIONS_PER_SPRITE
    IN ReadF32(m.basePositionData, positionOffsetIndex + AX)

\* setBaseX that writes the array of the current position.
setBaseX_Current(m, spriteIndex, baseX) ==
    LET positionOffsetIndex == spriteIndex * POSITIONS_PER_SPRITE
        d1 == WriteF32(m.positionData, positionOffsetIndex + AX, baseX)
        d2 == WriteF32(d1, positionOffsetIndex + BX, RAdd(baseX, m.spriteWidth))
        d3 == WriteF32(d2, positionOffsetIndex + CX, RAdd(baseX, m.spriteWidth))
        d4 == WriteF32(d3, positionOffsetIndex + DX, baseX)
    IN [m EXCEPT !.positionData = d4, !.needsUpdate.basePosition = TRUE]

setBaseX(m, spriteIndex, baseX) ==
    LET positionOffsetIndex == spriteIndex * POSITIONS_PER_SPRITE
        d1 == WriteF32(m.basePositionData, positionOffsetIndex + AX, baseX)
        d2 == WriteF32(d1, positionOffsetIndex + BX, RAdd(baseX, m.spriteWidth))
        d3 == WriteF32(d2, positionOffsetIndex + CX, RAdd(baseX, m.spriteWidth))
        d4 == WriteF32(d3, positionOffsetIndex + DX, baseX)
    IN [m EXCEPT !.basePositionData = d4, !.needsUpdate.basePosition = TRUE]

getBaseY(m, spriteIndex) ==
    LET positionOffsetIndex == spriteIndex * POSITIONS_PER_SPRITE
    IN ReadF32(m.basePositionData, positionOffsetIndex + AY)


\* setBaseY that raises the high edge by the width of the sprites.
setBaseY_Width(m, spriteIndex, baseY) ==
    LET positionOffsetIndex == spriteIndex * POSITIONS_PER_SPRITE
        d1 == WriteF32(m.basePositionData, positionOffsetIndex + AY, baseY)
        d2 == WriteF32(d1, positionOffsetIndex + BY_, baseY)
        d3 == WriteF32(d2, positionOffsetIndex + CY, RAdd(baseY, m.spriteWidth))
        d4 == WriteF32(d3, positionOffsetIndex + DY, RAdd(baseY, m.spriteWidth))
    IN [m EXCEPT !.basePositionData = d4, !.needsUpdate.basePosition = TRUE]

setBaseY(m, spriteIndex, baseY) ==
    LET positionOffsetIndex == spriteIndex * POSITIONS_PER_SPRITE
        d1 == WriteF32(m.basePositionData, positionOffsetIndex + AY, baseY)
        d2 == WriteF32(d1, positionOffsetIndex + BY_, baseY)
        d3 == WriteF32(d2, positionOffsetIndex + CY, RAdd(baseY, m.spriteHeight))
        d4 == WriteF32(d3, positionOffsetIndex + DY, RAdd(baseY, m.spriteHeight))
    IN [m EXCEPT !.basePositionData = d4, !.needsUpdate.basePosition = TRUE]

getBaseZ(m, spriteIndex) ==
    LET positionOffsetIndex == spriteIndex * POSITIONS_PER_SPRITE
    IN ReadF32(m.basePositionData, positionOffsetIndex + AZ)

setBaseZ(m, spriteIndex, baseZ) ==
    LET positionOffsetIndex == spriteIndex * POSITIONS_PER_SPRITE
        d1 == WriteF32(m.basePositionData, positionOffsetIndex + AZ, baseZ)
        d2 == WriteF32(d1, positionOffsetIndex + BZ, baseZ)
        d3 == WriteF32(d2, positionOffsetIndex + CZ, baseZ)
        d4 == WriteF32(d3, positionOffsetIndex + DZ, baseZ)
    IN [m EXCEPT !.basePositionData = d4, !.needsUpdate.basePosition = TRUE]

getBaseR(m, spriteIndex) ==
    LET colorOffsetIndex == spriteIndex * COLORS_PER_SPRITE
    IN ReadU8(m.baseColorData, colorOffsetIndex + AR)

setBaseR(m, spriteIndex, baseR) ==
    LET colorOffsetIndex == spriteIndex * COLORS_PER_SPRITE
        d1 == WriteU8(m.baseColorData, colorOffsetIndex + AR, baseR)
        d2 == WriteU8(d1, colorOffsetIndex + BR, baseR)
        d3 == WriteU8(d2, colorOffsetIndex + CR, baseR)
        d4 == WriteU8(d3, colorOffsetIndex + DR, baseR)
    IN [m EXCEPT !.baseColorData = d4, !.needsUpdate.baseColor = TRUE]

getBaseG(m, spriteIndex) ==
    LET colorOffsetIndex == spriteIndex * COLORS_PER_SPRITE
    IN ReadU8(m.baseColorData, colorOffsetIndex + AG)

setBaseG(m, spriteIndex, baseG) ==
    LET colorOffsetIndex == spriteIndex * COLORS_PER_SPRITE
        d1 == WriteU8(m.baseColorData, colorOffsetIndex + AG, baseG)
        d2 == WriteU8(d1, colorOffsetIndex + BG, baseG)
        d3 == WriteU8(d2, colorOffsetIndex + CG, baseG)
        d4 == WriteU8(d3, colorOffsetIndex + DG, baseG)
    IN [m EXCEPT !.baseColorData = d4, !.needsUpdate.baseColor = TRUE]

getBaseB(m, spriteIndex) ==
    LET colorOffsetIndex == spriteIndex * COLORS_PER_SPRITE
    IN ReadU8(m.baseColorData, colorOffsetIndex + AB)

setBaseB(m, spriteIndex, baseB) ==
    LET colorOffsetIndex == spriteIndex * COLORS_PER_SPRITE
        d1 == WriteU8(m.baseColorData, colorOffsetIndex + AB, baseB)
        d2 == WriteU8(d1, colorOffsetIndex + BB, baseB)
        d3 == WriteU8(d2, colorOffsetIndex + CB, baseB)
        d4 == WriteU8(d3, colorOffsetIndex + DB, baseB)
    IN [m EXCEPT !.baseColorData = d4, !.needsUpdate.baseColor = TRUE]

getBaseA(m, spriteIndex) ==
    LET colorOffsetIndex == spriteIndex * COLORS_PER_SPRITE
    IN ReadU8(m.baseColorData, colorOffsetIndex + AA)

setBaseA(m, spriteIndex, baseA) ==
    LET colorOffsetIndex == spriteIndex * COLORS_PER_SPRITE
        d1 == WriteU8(m.baseColorData, colorOffsetIndex + AA, baseA)
        d2 == WriteU8(d1, colorOffsetIndex + BA, baseA)
        d3 == WriteU8(d2, colorOffsetIndex + CA, baseA)
        d4 == WriteU8(d3, colorOffsetIndex + DA, baseA)
    IN [m EXCEPT !.baseColorData = d4, !.needsUpdate.baseColor = TRUE]

getOpacity(m, spriteIndex) ==
    LET vertexOffsetIndex == spriteIndex * VERTICES_PER_SPRITE
    IN ReadF32(m.opacityData, vertexOffsetIndex + AV)


\* setOpacity that writes the first corner only.
setOpacity_FirstCorner(m, spriteIndex, opacity) ==
    LET vertexOffsetIndex == spriteIndex * VERTICES_PER_SPRITE
        d1 == WriteF32(m.opacityData, vertexOffsetIndex + AV, opacity)
    IN [m EXCEPT !.opacityData = d1, !.needsUpdate.opacity = TRUE]

setOpacity(m, spriteIndex, opacity) ==
    LET vertexOffsetIndex == spriteIndex * VERTICES_PER_SPRITE
        d1 == WriteF32(m.opacityData, vertexOffsetIndex + AV, opacity)
        d2 == WriteF32(d1, vertexOffsetIndex + BV, opacity)
        d3 == WriteF32(d2, vertexOffsetIndex + CV, opacity)
        d4 == WriteF32(d3, vertexOffsetIndex + DV, opacity)
    IN [m EXCEPT !.opacityData = d4, !.needsUpdate.opacity = TRUE]

getBaseOpacity(m, spriteIndex) ==
    LET vertexOffsetIndex == spriteIndex * VERTICES_PER_SPRITE
    IN ReadF32(m.baseOpacityData, vertexOffsetIndex + AV)

\* setBaseOpacity that marks the attribute of the current opacity.
setBaseOpacity_MarksCurrent(m, spriteIndex, baseOpacity) ==
    LET vertexOffsetIndex == spriteIndex * VERTICES_PER_SPRITE
        d1 == WriteF32(m.baseOpacityData, vertexOffsetIndex + AV, baseOpacity)
        d2 == WriteF32(d1, vertexOffsetIndex + BV, baseOpacity)
        d3 == WriteF32(d2, vertexOffsetIndex + CV, baseOpacity)
        d4 == WriteF32(d3, vertexOffsetIndex + DV, baseOpacity)
    IN [m EXCEPT !.baseOpacityData = d4, !.needsUpdate.opacity = TRUE]

setBaseOpacity(m, spriteIndex, baseOpacity) ==
    LET vertexOffsetIndex == spriteIndex * VERTICES_PER_SPRITE
        d1 == WriteF32(m.baseOpacityData, vertexOffsetIndex + AV, baseOpacity)
        d2 == WriteF32(d1, vertexOffsetIndex + BV, baseOpacity)
        d3 == WriteF32(d2, vertexOffsetIndex + CV, baseOpacity)
        d4 == WriteF32(d3, vertexOffsetIndex + DV, baseOpacity)
    IN [m EXCEPT !.baseOpacityData = d4, !.needsUpdate.baseOpacity = TRUE]

getTimestamp(m, spriteIndex) ==
    LET vertexOffsetIndex == spriteIndex * VERTICES_PER_SPRITE
    IN RAdd(ReadF32(m.timestampData, vertexOffsetIndex + AV),
            m.constructionTimestamp)

\* setTimestamp that stores the timestamp itself, not its offset from the
\* construction of the mesh.
setTimestamp_Absolute(m, spriteIndex, timestamp) ==
    LET vertexOffsetIndex == spriteIndex * VERTICES_PER_SPRITE
        d1 == WriteF32(m.timestampData, vertexOffsetIndex + AV, timestamp)
        d2 == WriteF32(d1, vertexOffsetIndex + BV, timestamp)
        d3 == WriteF32(d2, vertexOffsetIndex + CV, timestamp)
        d4 == WriteF32(d3, vertexOffsetIndex + DV, timestamp)
    IN [m EXCEPT !.timestampData = d4, !.needsUpdate.timestamp = TRUE]

setTimestamp(m, spriteIndex, timestamp) ==
    LET vertexOffsetIndex == spriteIndex * VERTICES_PER_SPRITE
        diffTimestamp == RSub(timestamp, m.constructionTimestamp)
        d1 == WriteF32(m.timestampData, vertexOffsetIndex + AV, diffTimestamp)
        d2 == WriteF32(d1, vertexOffsetIndex + BV, diffTimestamp)
        d3 == WriteF32(d2, vertexOffsetIndex + CV, diffTimestamp)
        d4 == WriteF32(d3, vertexOffsetIndex + DV, diffTimestamp)
    IN [m EXCEPT !.timestampData = d4, !.needsUpdate.timestamp = TRUE]

getBaseTimestamp(m, spriteIndex) ==
    LET vertexOffsetIndex == spriteIndex * VERTICES_PER_SPRITE
    IN RAdd(ReadF32(m.baseTimestampData, vertexOffsetIndex + AV),
            m.constructionTimestamp)

\* setBaseTimestamp that writes the current timestamp of the sprite.
setBaseTimestamp_Current(m, spriteIndex, baseTimestamp) ==
    LET vertexOffsetIndex == spriteIndex * VERTICES_PER_SPRITE
        diffTimestamp == RSub(baseTimestamp, m.constructionTimestamp)
        d1 == WriteF32(m.timestampData, vertexOffsetIndex + AV, diffTimestamp)
        d2 == WriteF32(d1, vertexOffsetIndex + BV, diffTimestamp)
        d3 == WriteF32(d2, vertexOffsetIndex + CV, diffTimestamp)
        d4 == WriteF32(d3, vertexOffsetIndex + DV, diffTimestamp)
    IN [m EXCEPT !.timestampData = d4, !.needsUpdate.baseTimestamp = TRUE]

setBaseTimestamp(m, spriteIndex, baseTimestamp) ==
    LET vertexOffsetIndex == spriteIndex * VERTICES_PER_SPRITE
        diffTimestamp == RSub(baseTimestamp, m.constructionTimestamp)
        d1 == WriteF32(m.baseTimestampData, vertexOffsetIndex + AV, diffTimestamp)
        d2 == WriteF32(d1, vertexOffsetIndex + BV, diffTimestamp)
        d3 == WriteF32(d2, vertexOffsetIndex + CV, diffTimestamp)
        d4 == WriteF32(d3, vertexOffsetIndex + DV, diffTimestamp)
    IN [m EXCEPT !.baseTimestampData = d4, !.needsUpdate.baseTimestamp = TRUE]

getTextureIndex(m, spriteIndex) ==
    LET vertexOffsetIndex == spriteIndex * VERTICES_PER_SPRITE
    IN ReadF32(m.textureIndexData, vertexOffsetIndex + AV)

setTextureIndex(m, spriteIndex, textureIndex) ==
    LET vertexOffsetIndex == spriteIndex * VERTICES_PER_SPRITE
        d1 == WriteF32(m.textureIndexData, vertexOffsetIndex + AV, textureIndex)
        d2 == WriteF32(d1, vertexOffsetIndex + BV, textureIndex)
        d3 == WriteF32(d2, vertexOffsetIndex + CV, textureIndex)
        d4 == WriteF32(d3, vertexOffsetIndex + DV, textureIndex)
    IN [m EXCEPT !.textureIndexData = d4, !.needsUpdate.textureIndex = TRUE]

getBaseTextureIndex(m, spriteIndex) ==
    LET vertexOffsetIndex == spriteIndex * VERTICES_PER_SPRITE
    IN ReadF32(m.baseTextureIndexData, vertexOffsetIndex + AV)

setBaseTextureIndex(m, spriteIndex, baseTextureIndex) ==
    LET vertexOffsetIndex == spriteIndex * VERTICES_PER_SPRITE
        d1 == WriteF32(m.baseTextureIndexData, vertexOffsetIndex + AV, baseTextureIndex)
        d2 == WriteF32(d1, vertexOffsetIndex + BV, baseTextureIndex)
        d3 == WriteF32(d2, vertexOffsetIndex + CV, baseTextureIndex)
        d4 == WriteF32(d3, vertexOffsetIndex + DV, baseTextureIndex)
    IN [m EXCEPT !.baseTextureIndexData = d4, !.needsUpdate.baseTextureIndex = TRUE]

\* getTextureTimestamp that returns the offset the array holds.
getTextureTimestamp_Stored(m, spriteIndex) ==
    LET vertexOffsetIndex == spriteIndex * VERTICES_PER_SPRITE
    IN ReadF32(m.textureTimestampData, vertexOffsetIndex + AV)

getTextureTimestamp(m, spriteIndex) ==
    LET vertexOffsetIndex == spriteIndex * VERTICES_PER_SPRITE
    IN RAdd(ReadF32(m.textureTimestampData, vertexOffsetIndex + AV),
            m.constructionTimestamp)

\* setTextureTimestamp that writes the array of the texture index.
setTextureTimestamp_Index(m, spriteIndex, textureTimestamp) ==
    LET vertexOffsetIndex == spriteIndex * VERTICES_PER_SPRITE
        diffTimestamp == RSub(textureTimestamp, m.constructionTimestamp)
        d1 == WriteF32(m.textureIndexData, vertexOffsetIndex + AV, diffTimestamp)
        d2 == WriteF32(d1, vertexOffsetIndex + BV, diffTimestamp)
        d3 == WriteF32(d2, vertexOffsetIndex + CV, diffTimestamp)
        d4 == WriteF32(d3, vertexOffsetIndex + DV, diffTimestamp)
    IN [m EXCEPT !.textureIndexData = d4, !.needsUpdate.textureTimestamp = TRUE]

setTextureTimestamp(m, spriteIndex, textureTimestamp) ==
    LET vertexOffsetIndex == spriteIndex * VERTICES_PER_SPRITE
        diff == RSub(textureTimestamp, m.constructionTimestamp)
        d1 == WriteF32(m.textureTimestampData, vertexOffsetIndex + AV, diff)
        d2 == WriteF32(d1, vertexOffsetIndex + BV, diff)
        d3 == WriteF32(d2, vertexOffsetIndex + CV, diff)
        d4 == WriteF32(d3, vertexOffsetIndex + DV, diff)
    IN [m EXCEPT !.textureTimestampData = d4, !.needsUpdate.textureTimestamp = TRUE]

getBaseTextureTimestamp(m, spriteIndex) ==
    LET vertexOffsetIndex == spriteIndex * VERTICES_PER_SPRITE
    IN RAdd(ReadF32(m.baseTextureTimestampData, vertexOffsetIndex + AV),
            m.constructionTimestamp)

setBaseTextureTimestamp(m, spriteIndex, baseTextureTimestamp) ==
    LET vertexOffsetIndex == spriteIndex * VERTICES_PER_SPRITE
        diff == RSub(baseTextureTimestamp, m.constructionTimestamp)
        d1 == WriteF32(m.baseTextureTimestampData, vertexOffsetIndex + AV, diff)
        d2 == WriteF32(d1, vertexOffsetIndex + BV, diff)
        d3 == WriteF32(d2, vertexOffsetIndex + CV, diff)
        d4 == WriteF32(d3, vertexOffsetIndex + DV, diff)
    IN [m EXCEPT !.baseTextureTimestampData = d4, !.needsUpdate.baseTextureTimestamp = TRUE]

\* ---------------------------------------------------------------- material

\* The easing functions a SpriteMaterial may be configured with: each is
\* monotonic from [0,1] onto [0,1].
Easings == {"linear", "quadIn", "quadOut"}

\* SpriteMaterial.applyEasing.
applyEasing(material, t) ==
    CASE material.easing = "linear" -> t
      [] material.easing = "quadIn" -> RMul(t, t)
      [] material.easing = "quadOut" -> RMul(t, RSub(Num(2), t))

\* SpriteMesh.time (getter).
getTime(m) == RAdd(m.material.time, m.constructionTimestamp)

\* SpriteMesh.time (setter).
setTime(m, time) ==
    [m EXCEPT !.material.time = RSub(time, m.constructionTimestamp)]

\* ------------------------------------------------------------- constructor

\* The BufferAttributes of the geometry that the setters mark.
Attributes == {"position", "basePosition", "color", "baseColor", "opacity",
               "baseOpacity", "timestamp", "baseTimestamp", "textureIndex",
               "baseTextureIndex", "textureTimestamp", "baseTextureTimestamp"}

\* new SpriteMesh(capacity, imageWidth, imageHeight), constructed at time now
\* (Date.now()) with a material of the given easing.
SpriteMesh(capacity, imageWidth, imageHeight, now, ease) ==
    [capacity |-> capacity,
     imageWidth |-> imageWidth,
     imageHeight |-> imageHeight,
     nextIndex |-> 0,
     spriteWidth |-> RDiv(Num(imageWidth), Num(imageHeight)),
     spriteHeight |-> Num(1),
     positionData |-> Float32Array(POSITIONS_PER_SPRITE * capacity),
     basePositionData |-> Float32Array(POSITIONS_PER_SPRITE * capacity),
     colorData |-> Uint8Array(COLORS_PER_SPRITE * capacity),
     baseColorData |-> Uint8Array(COLORS_PER_SPRITE * capacity),
     opacityData |-> Float32Array(VERTICES_PER_SPRITE * capacity),
     baseOpacityData |-> Float32Array(VERTICES_PER_SPRITE * capacity),
     timestampData |-> Float32Array(VERTICES_PER_SPRITE * capacity),
     baseTimestampData |-> Float32Array(VERTICES_PER_SPRITE * capacity),
     textureIndexData |-> Float32Array(VERTICES_PER_SPRITE * capacity),
     baseTextureIndexData |-> Float32Array(VERTICES_PER_SPRITE * capacity),
     textureTimestampData |-> Float32Array(VERTICES_PER_SPRITE * capacity),
     baseTextureTimestampData |-> Float32Array(VERTICES_PER_SPRITE * capacity),
     needsUpdate |-> [at \in Attributes |-> FALSE],
     material |-> [time |-> Num(0), easing |-> ease],
     constructionTimestamp |-> Num(now)]

\* new Sprite(spriteMesh, spriteIndex); there is one mesh, "this".
Sprite(spriteMesh, spriteIndex) ==
    [spriteMesh |-> spriteMesh, spriteIndex |-> spriteIndex]

\* ------------------------------------------------------------------ rebase

\* rebase that works with the mesh's time whatever timestamp it is given.
rebaseTimestamp_IgnoresArgument(m, timestamp) == getTime(m)

\* The timestamp rebase works with: the mesh's time when none is given.
rebaseTimestamp(m, timestamp) ==
    IF timestamp = Undefined THEN getTime(m) ELSE timestamp

\* rebaseBlend without its test for a timestamp at or before the base one.
rebaseBlend_Unclamped(m, spriteIndex, timestamp) ==
    LET oldBaseTimestamp == getBaseTimestamp(m, spriteIndex)
        currentTimestamp == getTimestamp(m, spriteIndex)
    IN IF RGe(timestamp, currentTimestamp) THEN Num(1)
       ELSE applyEasing(m.material,
                RDiv(RSub(timestamp, oldBaseTimestamp),
                     RSub(currentTimestamp, oldBaseTimestamp)))


\* rebaseBlend without its test for a timestamp at or after the current one.
rebaseBlend_NoUpperClamp(m, spriteIndex, timestamp) ==
    LET oldBaseTimestamp == getBaseTimestamp(m, spriteIndex)
        currentTimestamp == getTimestamp(m, spriteIndex)
    IN IF RLe(timestamp, oldBaseTimestamp) THEN Num(0)
       ELSE applyEasing(m.material,
                RDiv(RSub(timestamp, oldBaseTimestamp),
                     RSub(currentTimestamp, oldBaseTimestamp)))

\* The local `blend` of rebase: the proportion of current values to apply.
rebaseBlend(m, spriteIndex, timestamp) ==
    LET oldBaseTimestamp == getBaseTimestamp(m, spriteIndex)
        currentTimestamp == getTimestamp(m, spriteIndex)
    IN IF RGe(timestamp, currentTimestamp) THEN Num(1)
       ELSE IF RLe(timestamp, oldBaseTimestamp) THEN Num(0)
       ELSE applyEasing(m.material,
                RDiv(RSub(timestamp, oldBaseTimestamp),
                     RSub(currentTimestamp, oldBaseTimestamp)))

\* lerp with its weights the wrong way round.
lerp_Swapped(blend, v0, v1) ==
    RAdd(RMul(v0, RSub(Num(1), blend)), RMul(v1, blend))

\* The local function `lerp` of rebase.
lerp(blend, v0, v1) == RAdd(RMul(v0, blend), RMul(v1, RSub(Num(1), blend)))

\* newBaseTimestamp without its test for a timestamp at or after the current
\* one.
rebaseNewBaseTimestamp_AlwaysBlends(m, spriteIndex, timestamp, blend) ==
    RAdd(RMul(getTimestamp(m, spriteIndex), blend),
         RMul(getBaseTimestamp(m, spriteIndex), RSub(Num(1), blend)))

\* newBaseTimestamp that is the time of the rebase.
rebaseNewBaseTimestamp_QueryTime(m, spriteIndex, timestamp, blend) ==
    timestamp


\* newBaseTimestamp that is the current timestamp of the sprite.
rebaseNewBaseTimestamp_Current(m, spriteIndex, timestamp, blend) ==
    getTimestamp(m, spriteIndex)

\* The local `newBaseTimestamp` of rebase.
rebaseNewBaseTimestamp(m, spriteIndex, timestamp, blend) ==
    LET oldBaseTimestamp == getBaseTimestamp(m, spriteIndex)
        currentTimestamp == getTimestamp(m, spriteIndex)
    IN IF RGe(timestamp, currentTimestamp) THEN timestamp
       ELSE lerp(blend, currentTimestamp, oldBaseTimestamp)

\* The statements of rebase that write the base values: the mesh after each.
rebaseX(m, spriteIndex, blend) ==
    setBaseX(m, spriteIndex,
        lerp(blend, getX(m, spriteIndex), getBaseX(m, spriteIndex)))

rebaseY(m, spriteIndex, blend) ==
    setBaseY(m, spriteIndex,
        lerp(blend, getY(m, spriteIndex), getBaseY(m, spriteIndex)))


\* rebaseZ that stores the current z as the base one.
rebaseZ_ToCurrent(m, spriteIndex, blend) ==
    setBaseZ(m, spriteIndex, getZ(m, spriteIndex))

rebaseZ(m, spriteIndex, blend) ==
    setBaseZ(m, spriteIndex,
        lerp(blend, getZ(m, spriteIndex), getBaseZ(m, spriteIndex)))

rebaseR(m, spriteIndex, blend) ==
    setBaseR(m, spriteIndex,
        lerp(blend, getR(m, spriteIndex), getBaseR(m, spriteIndex)))

rebaseG(m, spriteIndex, blend) ==
    setBaseG(m, spriteIndex,
        lerp(blend, getG(m, spriteIndex), getBaseG(m, spriteIndex)))

rebaseB(m, spriteIndex, blend) ==
    setBaseB(m, spriteIndex,
        lerp(blend, getB(m, spriteIndex), getBaseB(m, spriteIndex)))

rebaseA(m, spriteIndex, blend) ==
    setBaseA(m, spriteIndex,
        lerp(blend, getA(m, spriteIndex), getBaseA(m, spriteIndex)))

rebaseOpacity(m, spriteIndex, blend) ==
    setBaseOpacity(m, spriteIndex,
        lerp(blend, getOpacity(m, spriteIndex), getBaseOpacity(m, spriteIndex)))

\* The base values of rebase written one after the other.
rebaseValues(m, spriteIndex, blend) ==
    rebaseOpacity(rebaseA(rebaseB(rebaseG(rebaseR(rebaseZ(rebaseY(
        rebaseX(m, spriteIndex, blend),
        spriteIndex, blend), spriteIndex, blend), spriteIndex, blend),
        spriteIndex, blend), spriteIndex, blend), spriteIndex, blend),
        spriteIndex, blend)

\* rebaseAt that leaves the base timestamp as it is.
rebaseAt_KeepsBaseTimestamp(m, spriteIndex, timestamp, blend) ==
    rebaseValues(m, spriteIndex, blend)

\* The part of rebase that follows the choice of its timestamp.
rebaseAt(m, spriteIndex, timestamp, blend) ==
    setBaseTimestamp(rebaseValues(m, spriteIndex, blend), spriteIndex,
        rebaseNewBaseTimestamp(m, spriteIndex, timestamp, blend))

\* SpriteMesh.rebase(spriteIndex, timestamp): the mesh after the call.
rebase(m, spriteIndex, timestampArg) ==
    rebaseAt(m, spriteIndex, rebaseTimestamp(m, timestampArg),
             rebaseBlend(m, spriteIndex, rebaseTimestamp(m, timestampArg)))

\* ---------------------------------------------------------------- textures

\* switchTextures that leaves the base texture index as it is.
switchTextures_KeepsBase(m, spriteIndex, startTimestamp, endTimestamp) ==
    LET oldTextureIndex == getTextureIndex(m, spriteIndex)
        m2 == setTextureIndex(m, spriteIndex,
                  IF oldTextureIndex = Num(DEFAULT_TEXTURE_INDEX)
                  THEN Num(SPRITE_TEXTURE_INDEX)
                  ELSE Num(DEFAULT_TEXTURE_INDEX))
        m3 == setBaseTextureTimestamp(m2, spriteIndex, startTimestamp)
    IN setTextureTimestamp(m3, spriteIndex, endTimestamp)

\* switchTextures that turns to the sprite texture whatever the texture was.
switchTextures_ToSprite(m, spriteIndex, startTimestamp, endTimestamp) ==
    LET oldTextureIndex == getTextureIndex(m, spriteIndex)
        m1 == setBaseTextureIndex(m, spriteIndex, oldTextureIndex)
        m2 == setTextureIndex(m1, spriteIndex, Num(SPRITE_TEXTURE_INDEX))
        m3 == setBaseTextureTimestamp(m2, spriteIndex, startTimestamp)
    IN setTextureTimestamp(m3, spriteIndex, endTimestamp)

\* switchTextures that writes the window of the position, color and opacity.
switchTextures_Window(m, spriteIndex, startTimestamp, endTimestamp) ==
    LET oldTextureIndex == getTextureIndex(m, spriteIndex)
        m1 == setBaseTextureIndex(m, spriteIndex, oldTextureIndex)
        m2 == setTextureIndex(m1, spriteIndex,
                  IF oldTextureIndex = Num(DEFAULT_TEXTURE_INDEX)
                  THEN Num(SPRITE_TEXTURE_INDEX)
                  ELSE Num(DEFAULT_TEXTURE_INDEX))
        m3 == setBaseTimestamp(m2, spriteIndex, startTimestamp)
    IN setTimestamp(m3, spriteIndex, endTimestamp)

\* SpriteMesh.switchTextures(spriteIndex, startTimestamp, endTimestamp).
switchTextures(m, spriteIndex, startTimestamp, endTimestamp) ==
    LET oldTextureIndex == getTextureIndex(m, spriteIndex)
        m1 == setBaseTextureIndex(m, spriteIndex, oldTextureIndex)
        m2 == setTextureIndex(m1, spriteIndex,
                  IF oldTextureIndex = Num(DEFAULT_TEXTURE_INDEX)
                  THEN Num(SPRITE_TEXTURE_INDEX)
                  ELSE Num(DEFAULT_TEXTURE_INDEX))
        m3 == setBaseTextureTimestamp(m2, spriteIndex, startTimestamp)
    IN setTextureTimestamp(m3, spriteIndex, endTimestamp)

\* ------------------------------------------------------------ createSprite

\* createSprite that does not advance nextIndex.
createSprite_Reuses(m) == <<m, Sprite("this", m.nextIndex)>>


\* createSprite that makes the sprite it returns opaque.
createSprite_Opaque(m) ==
    <<setOpacity([m EXCEPT !.nextIndex = m.nextIndex + 1], m.nextIndex, Num(1)),
      Sprite("this", m.nextIndex)>>

\* SpriteMesh.createSprite(): <<the mesh after the call, the Sprite returned>>.
createSprite(m) ==
    <<[m EXCEPT !.nextIndex = m.nextIndex + 1], Sprite("this", m.nextIndex)>>

\* ------------------------------------------------- properties of a Sprite

\* The properties of a Sprite that have a getter and a setter, with the name
\* of the setter of the mesh each one forwards to.
Setters ==
    [x |-> "setX", y |-> "setY", z |-> "setZ", r |-> "setR", g |-> "setG",
     b |-> "setB", a |-> "setA", opacity |-> "setOpacity",
     baseX |-> "setBaseX", baseY |-> "setBaseY", baseZ |-> "setBaseZ",
     baseR |-> "setBaseR", baseG |-> "setBaseG", baseB |-> "setBaseB",
     baseA |-> "setBaseA", baseOpacity |-> "setBaseOpacity",
     timestamp |-> "setTimestamp", baseTimestamp |-> "setBaseTimestamp",
     textureIndex |-> "setTextureIndex",
     baseTextureIndex |-> "setBaseTextureIndex",
     textureTimestamp |-> "setTextureTimestamp",
     baseTextureTimestamp |-> "setBaseTextureTimestamp"]

Properties == DOMAIN Setters

ColorProperties == {"r", "g", "b", "a", "baseR", "baseG", "baseB", "baseA"}

TimeProperties ==
    {"timestamp", "baseTimestamp", "textureTimestamp", "baseTextureTimestamp"}

\* Sprite[A] = v on the sprite at spriteIndex: the mesh after the assignment.
Set(m, A, spriteIndex, v) ==
    CASE A = "x" -> setX(m, spriteIndex, v)
      [] A = "y" -> setY(m, spriteIndex, v)
      [] A = "z" -> setZ(m, spriteIndex, v)
      [] A = "r" -> setR(m, spriteIndex, v)
      [] A = "g" -> setG(m, spriteIndex, v)
      [] A = "b" -> setB(m, spriteIndex, v)
      [] A = "a" -> setA(m, spriteIndex, v)
      [] A = "opacity" -> setOpacity(m, spriteIndex, v)
      [] A = "baseX" -> setBaseX(m, spriteIndex, v)
      [] A = "baseY" -> setBaseY(m, spriteIndex, v)
      [] A = "baseZ" -> setBaseZ(m, spriteIndex, v)
      [] A = "baseR" -> setBaseR(m, spriteIndex, v)
      [] A = "baseG" -> setBaseG(m, spriteIndex, v)
      [] A = "baseB" -> setBaseB(m, spriteIndex, v)
      [] A = "baseA" -> setBaseA(m, spriteIndex, v)
      [] A = "baseOpacity" -> setBaseOpacity(m, spriteIndex, v)
      [] A = "timestamp" -> setTimestamp(m, spriteIndex, v)
      [] A = "baseTimestamp" -> setBaseTimestamp(m, spriteIndex, v)
      [] A = "textureIndex" -> setTextureIndex(m, spriteIndex, v)
      [] A = "baseTextureIndex" -> setBaseTextureIndex(m, spriteIndex, v)
      [] A = "textureTimestamp" -> setTextureTimestamp(m, spriteIndex, v)
      [] A = "baseTextureTimestamp" -> setBaseTextureTimestamp(m, spriteIndex, v)

\* ------------------------------------------------------ inputs of the model

\* Date.now() when the mesh is constructed.
Now == 16

\* Image sizes the mesh is constructed with: <<imageWidth, imageHeight>>.
ImageSize == <<64, 32>>

\* The sprite indexes the operations are called with: the first and the last
\* of the mesh, the one below them and the one above them.
Indexes == {0 - 1, 0, Capacity - 1, Capacity}

\* Timestamps rebase is called with: around the construction, and one that
\* is more than 2^24 ms after it.
Times == {Num(Now), Num(Now + 2), Num(Now + 4), Num(Now + 8),
          Num(Now + Pow2(24) + 1)}

\* Values the setters are called with: none of them is a value the array it
\* goes to can hold as it is, but for one timestamp and the texture index.
PositionValues == {<<1, 10>>}
ColorValues == {<<601, 2>>}
OpacityValues == {<<1, 3>>}
TimestampValues == {Num(Now + 4), Num(Now + Pow2(24) + 1)}
TextureValues == {Num(SPRITE_TEXTURE_INDEX)}

\* The values the setter of property A is called with.
Values(A) ==
    IF A \in ColorProperties THEN ColorValues
    ELSE IF A \in TimeProperties THEN TimestampValues
    ELSE IF A \in {"textureIndex", "baseTextureIndex"} THEN TextureValues
    ELSE IF A \in {"opacity", "baseOpacity"} THEN OpacityValues
    ELSE PositionValues

\* No value in the mesh is one the model could not carry.
Carried(m) ==
    /\ \A k \in DOMAIN m.basePositionData : m.basePositionData[k] # TooBig
    /\ \A k \in DOMAIN m.baseColorData : m.baseColorData[k] # NotCarried
    /\ \A k \in DOMAIN m.baseOpacityData : m.baseOpacityData[k] # TooBig
    /\ \A k \in DOMAIN m.baseTimestampData : m.baseTimestampData[k] # TooBig

\* ----------------------------------------------------------- initial states
\* A caller's preparation of sprite 0 through the setters: a sprite caught in
\* the middle of a transition, with every attribute's base and current value
\* different from each other and from the other attributes'.

Moving(m) ==
    LET p1 == setZ(setY(setX(m, 0, Num(8)), 0, Num(4)), 0, Num(0 - 2))
        p2 == setBaseZ(setBaseY(setBaseX(p1, 0, Num(0)), 0, Num(1)), 0, Num(6))
        c1 == setA(setB(setG(setR(p2, 0, Num(255)), 0, Num(128)), 0, Num(7)),
                   0, Num(1))
        c2 == setBaseA(setBaseB(setBaseG(setBaseR(c1, 0, Num(0)), 0, Num(64)),
                   0, Num(8)), 0, Num(2))
    IN setBaseOpacity(setOpacity(c2, 0, Num(1)), 0, <<1, 2>>)

\* The sprite prepared with the window w of its transition:
\* <<baseTimestamp, timestamp>> after Now.
Prepared(m, w) ==
    LET q == setBaseTimestamp(setTimestamp(Moving(m), 0, Num(Now + w[2])),
                 0, Num(Now + w[1]))
    IN [q EXCEPT !.needsUpdate = m.needsUpdate]

NoCall == [op |-> "none", spriteIndex |-> 0, value |-> Undefined,
           value2 |-> Undefined, blend |-> Undefined, outcome |-> "returned"]

Constructed(e) == SpriteMesh(Capacity, ImageSize[1], ImageSize[2], Now, e)

\* The states a run starts in: <<easing, "new" or the window of sprite 0>>.
Starts ==
    (Easings \X {<<0, 6>>, <<0, 8>>})
        \cup ({"linear"} \X {"new", <<8, 0>>, <<4, 4>>})

\* The caller follows no script.
NoScript == [kind |-> "none"]

Init ==
    /\ \E st \in Starts :
          mesh = IF st[2] = "new" THEN Constructed(st[1])
                 ELSE Prepared(Constructed(st[1]), st[2])
    /\ sprites = <<>>
    /\ last = NoCall
    /\ ops = 0
    /\ pc = "free"
    /\ script = NoScript
    /\ shown = <<>>

\* ----------------------------------------------------------------- actions

\* A call of an operation on the mesh that returns normally and leaves the
\* mesh m2.
Call(op, spriteIndex, value, value2, blend, m2) ==
    /\ ops < MaxOps
    /\ mesh' = m2
    /\ last' = [op |-> op, spriteIndex |-> spriteIndex, value |-> value,
                value2 |-> value2, blend |-> blend, outcome |-> "returned"]
    /\ ops' = ops + 1
    /\ UNCHANGED <<sprites, pc, script, shown>>

\* A call of the setter of property A.
SetProperty(A, spriteIndex, value) ==
    Call(Setters[A], spriteIndex, value, Undefined, Undefined,
         Set(mesh, A, spriteIndex, value))

Rebase(spriteIndex, timestamp) ==
    LET m2 == rebase(mesh, spriteIndex, timestamp)
    IN /\ ops < MaxOps
       /\ Carried(m2)
       /\ Call("rebase", spriteIndex, rebaseTimestamp(mesh, timestamp),
               Undefined,
               rebaseBlend(mesh, spriteIndex, rebaseTimestamp(mesh, timestamp)),
               m2)

SwitchTextures(spriteIndex, startTimestamp, endTimestamp) ==
    Call("switchTextures", spriteIndex, startTimestamp, endTimestamp, Undefined,
         switchTextures(mesh, spriteIndex, startTimestamp, endTimestamp))

SetTime(time) ==
    Call("setTime", 0, time, Undefined, Undefined, setTime(mesh, time))

\* A call of createSprite: the caller keeps the handle it returns.
Create ==
    LET created == createSprite(mesh)
    IN /\ mesh' = created[1]
       /\ sprites' = Append(sprites, created[2])
       /\ last' = [NoCall EXCEPT !.op = "createSprite",
                                 !.spriteIndex = created[2].spriteIndex]

CreateSprite == Create /\ UNCHANGED <<pc, script, shown>>

Next ==
    \/ ops < MaxOps /\ CreateSprite /\ ops' = ops + 1
    \/ \E t \in {Num(Now + 4)} : SetTime(t)
    \/ \E i \in Indexes, t \in Times \cup {Undefined} : Rebase(i, t)
    \/ \E i \in Indexes, t \in {<<Num(Now), Num(Now + 4)>>,
                                <<Num(Now + 8), Num(Now + 2)>>} :
          SwitchTextures(i, t[1], t[2])
    \/ \E A \in Properties, i \in Indexes :
          \E v \in Values(A) : SetProperty(A, i, v)

Spec == Init /\ [][Next]_vars

\* --------------------------------------------------- creating the sprites
\* A run from the constructor in which the caller creates sprites, MaxCreates of
\* them, around its other calls.

InitCreate ==
    /\ mesh = Constructed("linear")
    /\ sprites = <<>>
    /\ last = NoCall
    /\ ops = 0
    /\ pc = "free"
    /\ script = NoScript
    /\ shown = <<>>

NextCreate ==
    \/ Len(sprites) < MaxCreates /\ CreateSprite /\ UNCHANGED ops
    \/ Next

SpecCreate == InitCreate /\ [][NextCreate]_vars

\* ------------------------------------------------------- reading a sprite
\* The properties of a Sprite by name, as its getters forward them.

Blended == {"x", "y", "z", "r", "g", "b", "a", "opacity"}

Colors == {"r", "g", "b", "a"}

\* Sprite.x, .y, .z, .r, .g, .b, .a, .opacity of the sprite at spriteIndex.
Current(m, A, spriteIndex) ==
    CASE A = "x" -> getX(m, spriteIndex)
      [] A = "y" -> getY(m, spriteIndex)
      [] A = "z" -> getZ(m, spriteIndex)
      [] A = "r" -> getR(m, spriteIndex)
      [] A = "g" -> getG(m, spriteIndex)
      [] A = "b" -> getB(m, spriteIndex)
      [] A = "a" -> getA(m, spriteIndex)
      [] A = "opacity" -> getOpacity(m, spriteIndex)

\* Sprite.baseX, .baseY, ... .baseOpacity of the sprite at spriteIndex.
Base(m, A, spriteIndex) ==
    CASE A = "x" -> getBaseX(m, spriteIndex)
      [] A = "y" -> getBaseY(m, spriteIndex)
      [] A = "z" -> getBaseZ(m, spriteIndex)
      [] A = "r" -> getBaseR(m, spriteIndex)
      [] A = "g" -> getBaseG(m, spriteIndex)
      [] A = "b" -> getBaseB(m, spriteIndex)
      [] A = "a" -> getBaseA(m, spriteIndex)
      [] A = "opacity" -> getBaseOpacity(m, spriteIndex)

\* The sprite indexes of the mesh.
Valid(m) == 0..(m.capacity - 1)

\* ------------------------------------------------------------ the renderer
\* What the vertex shader of the material shows of a sprite at time t: the
\* base value before the window, the current value after it, and the eased
\* blend of the two inside it.

ShaderBlend(m, spriteIndex, t) ==
    IF RGe(t, getTimestamp(m, spriteIndex)) THEN Num(1)
    ELSE IF RLe(t, getBaseTimestamp(m, spriteIndex)) THEN Num(0)
    ELSE applyEasing(m.material,
             RDiv(RSub(t, getBaseTimestamp(m, spriteIndex)),
                  RSub(getTimestamp(m, spriteIndex),
                       getBaseTimestamp(m, spriteIndex))))

\* current * b + base * (1 - b).
Mix(b, current, base) == RAdd(RMul(current, b), RMul(base, RSub(Num(1), b)))

Rendered(m, A, spriteIndex, t) ==
    Mix(ShaderBlend(m, spriteIndex, t), Current(m, A, spriteIndex),
        Base(m, A, spriteIndex))

\* What the array of attribute A holds after v is stored in it.
Stored(A, v) == IF A \in Colors THEN Num(ToUint8(v)) ELSE Fround(v)

\* ------------------------------------------------------------------ claims

C3_AsStated ==
    [][(/\ last'.op = "rebase"
        /\ last'.spriteIndex \in Valid(mesh)
        /\ RGe(last'.value, getTimestamp(mesh, last'.spriteIndex)))
        => /\ \A A \in Blended :
                 Base(mesh', A, last'.spriteIndex)
                     = Current(mesh, A, last'.spriteIndex)
           /\ getBaseTimestamp(mesh', last'.spriteIndex) = last'.value]_vars

\* A number a Float32Array holds as it is.
IsFloat32(q) == Fround(q) = q

\* C3 (amended): rebase(i, t) with t >= timestamp(i) makes the base value of
\* every blended attribute equal to its current value, and sets
\* baseTimestamp(i) to the construction timestamp plus the offset of t from it
\* rounded to a 32-bit float: that is exactly t when the offset is a 32-bit
\* float.
C3_RebaseAfterWindow ==
    [][(/\ last'.op = "rebase"
        /\ last'.spriteIndex \in Valid(mesh)
        /\ RGe(last'.value, getTimestamp(mesh, last'.spriteIndex)))
        => /\ \A A \in Blended :
                 Base(mesh', A, last'.spriteIndex)
                     = Current(mesh, A, last'.spriteIndex)
           /\ getBaseTimestamp(mesh', last'.spriteIndex)
                 = RAdd(Fround(RSub(last'.value, mesh.constructionTimestamp)),
                        mesh.constructionTimestamp)
           /\ IsFloat32(RSub(last'.value, mesh.constructionTimestamp))
                 => getBaseTimestamp(mesh', last'.spriteIndex)
                        = last'.value]_vars

\* A rebase after the end of the window has brought the base values of a
\* moving sprite to its current ones, and its base timestamp to the timestamp
\* of the call.
C3_Witness ==
    /\ last.op = "rebase"
    /\ last.spriteIndex \in Valid(mesh)
    /\ last.blend = Num(1)
    /\ last.value = Num(Now + 8)
    /\ getTimestamp(mesh, last.spriteIndex) = Num(Now + 6)
    /\ getBaseTimestamp(mesh, last.spriteIndex) = Num(Now + 8)
    /\ getX(mesh, last.spriteIndex) = Num(8)
    /\ \A A \in Blended :
          Base(mesh, A, last.spriteIndex) = Current(mesh, A, last.spriteIndex)

\* C4 as stated: rebase(i, t) with t <= baseTimestamp(i) leaves every base
\* value and baseTimestamp(i) unchanged, whatever timestamp(i) is.
C4_AsStated ==
    [][(/\ last'.op = "rebase"
        /\ last'.spriteIndex \in Valid(mesh)
        /\ RLe(last'.value, getBaseTimestamp(mesh, last'.spriteIndex)))
        => /\ \A A \in Blended :
                 Base(mesh', A, last'.spriteIndex)
                     = Base(mesh, A, last'.spriteIndex)
           /\ getBaseTimestamp(mesh', last'.spriteIndex)
                 = getBaseTimestamp(mesh, last'.spriteIndex)]_vars

\* C4 (amended): rebase(i, t) with t <= baseTimestamp(i) and t < timestamp(i)
\* leaves every base value and baseTimestamp(i) unchanged.
C4_RebaseBelowWindow ==
    [][(/\ last'.op = "rebase"
        /\ last'.spriteIndex \in Valid(mesh)
        /\ RLe(last'.value, getBaseTimestamp(mesh, last'.spriteIndex))
        /\ RLt(last'.value, getTimestamp(mesh, last'.spriteIndex)))
        => /\ \A A \in Blended :
                 Base(mesh', A, last'.spriteIndex)
                     = Base(mesh, A, last'.spriteIndex)
           /\ getBaseTimestamp(mesh', last'.spriteIndex)
                 = getBaseTimestamp(mesh, last'.spriteIndex)]_vars

\* A rebase before the window of a moving sprite has left its base values,
\* which differ from the current ones.
C4_Witness ==
    /\ last.op = "rebase"
    /\ last.spriteIndex \in Valid(mesh)
    /\ last.blend = Num(0)
    /\ RLt(last.value, getBaseTimestamp(mesh, last.spriteIndex))
    /\ RLt(last.value, getTimestamp(mesh, last.spriteIndex))
    /\ getX(mesh, last.spriteIndex) = Num(8)
    /\ getBaseX(mesh, last.spriteIndex) = Num(0)
    /\ getBaseR(mesh, last.spriteIndex) = Num(0)
    /\ getR(mesh, last.spriteIndex) = Num(255)

\* The arrays rebase has no business with.
RebaseFrame(m) ==
    <<m.positionData, m.colorData, m.opacityData, m.timestampData,
      m.textureIndexData, m.baseTextureIndexData, m.textureTimestampData,
      m.baseTextureTimestampData, m.nextIndex, m.capacity,
      m.constructionTimestamp, m.material>>

\* C5: rebase(i, t) changes only the base position, base color, base opacity
\* and baseTimestamp of sprite i: every current value and the four texture
\* attributes of every sprite, nextIndex, the handles created, and the base
\* values of every other sprite are as before.
C5_RebaseFrame ==
    [][last'.op = "rebase"
        => /\ RebaseFrame(mesh') = RebaseFrame(mesh)
           /\ sprites' = sprites
           /\ \A j \in Valid(mesh) \ {last'.spriteIndex} :
                 /\ \A A \in Blended : Base(mesh', A, j) = Base(mesh, A, j)
                 /\ getBaseTimestamp(mesh', j)
                        = getBaseTimestamp(mesh, j)]_vars

\* A rebase has changed the base values and the base timestamp of a moving
\* sprite, next to another sprite.
C5_Witness ==
    /\ last.op = "rebase"
    /\ last.spriteIndex = 0
    /\ 1 \in Valid(mesh)
    /\ RLt(Num(0), last.blend)
    /\ getX(mesh, 0) = Num(8)
    /\ getBaseX(mesh, 0) # Num(0)
    /\ getBaseTimestamp(mesh, 0) # getBaseTimestamp(mesh, 1)

\* The properties of the sprite at spriteIndex as its getters read them.
Read(m, spriteIndex) ==
    [x |-> getX(m, spriteIndex),
     y |-> getY(m, spriteIndex),
     z |-> getZ(m, spriteIndex),
     r |-> getR(m, spriteIndex),
     g |-> getG(m, spriteIndex),
     b |-> getB(m, spriteIndex),
     a |-> getA(m, spriteIndex),
     opacity |-> getOpacity(m, spriteIndex),
     baseX |-> getBaseX(m, spriteIndex),
     baseY |-> getBaseY(m, spriteIndex),
     baseZ |-> getBaseZ(m, spriteIndex),
     baseR |-> getBaseR(m, spriteIndex),
     baseG |-> getBaseG(m, spriteIndex),
     baseB |-> getBaseB(m, spriteIndex),
     baseA |-> getBaseA(m, spriteIndex),
     baseOpacity |-> getBaseOpacity(m, spriteIndex),
     timestamp |-> getTimestamp(m, spriteIndex),
     baseTimestamp |-> getBaseTimestamp(m, spriteIndex),
     textureIndex |-> getTextureIndex(m, spriteIndex),
     baseTextureIndex |-> getBaseTextureIndex(m, spriteIndex),
     textureTimestamp |-> getTextureTimestamp(m, spriteIndex),
     baseTextureTimestamp |-> getBaseTextureTimestamp(m, spriteIndex)]

\* The properties of the sprite it is called on that an operation writes.
Written(op) ==
    IF op = "rebase"
    THEN {"baseX", "baseY", "baseZ", "baseR", "baseG", "baseB", "baseA",
          "baseOpacity", "baseTimestamp"}
    ELSE IF op = "switchTextures"
    THEN {"textureIndex", "baseTextureIndex", "textureTimestamp",
          "baseTextureTimestamp"}
    ELSE {A \in Properties : Setters[A] = op}

\* What reading property A gives once v is written to it: v cut to an
\* unsigned byte for a color, v rounded to a 32-bit float for a position, an
\* opacity or a texture index, and for a timestamp the construction timestamp
\* plus the rounded offset of v from it.
ReadBack(m, A, v) ==
    IF A \in ColorProperties THEN Num(ToUint8(v))
    ELSE IF A \in TimeProperties
    THEN RAdd(Fround(RSub(v, m.constructionTimestamp)),
              m.constructionTimestamp)
    ELSE Fround(v)

\* C7 as stated: right after set(i, v) the matching get(i) returns v, and it
\* returns the same until the next write to that property of sprite i.
C7_AsStated ==
    [][\A j \in Valid(mesh) :
          \A before \in {Read(mesh, j)}, after \in {Read(mesh', j)} :
             \A A \in Properties :
                IF last'.spriteIndex = j /\ A \in Written(last'.op)
                THEN last'.op = Setters[A] => after[A] = last'.value
                ELSE after[A] = before[A]]_vars

\* C7 (amended): right after set(i, v) the matching get(i) returns v as the
\* array of the property holds it (cut to an unsigned byte for a color,
\* rounded to a 32-bit float for a position, opacity or texture index, offset
\* from the construction timestamp and rounded for a timestamp), and it
\* returns the same until the next operation that writes that property of
\* sprite i: its setter, rebase for a base value or the base timestamp,
\* switchTextures for a texture property.
C7_ReadBack ==
    [][\A j \in Valid(mesh) :
          \A before \in {Read(mesh, j)}, after \in {Read(mesh', j)} :
             \A A \in Properties :
                IF last'.spriteIndex = j /\ A \in Written(last'.op)
                THEN last'.op = Setters[A]
                        => after[A] = ReadBack(mesh, A, last'.value)
                ELSE after[A] = before[A]]_vars

\* A color has been set to 300.5 and reads 44; the other colors of the
\* sprite read what they did.
C7_Witness ==
    /\ last.op = "setG"
    /\ last.spriteIndex = 0
    /\ last.value = <<601, 2>>
    /\ getG(mesh, 0) = Num(44)
    /\ getR(mesh, 0) = Num(255)
    /\ getBaseG(mesh, 0) = Num(64)

\* The operations called on one sprite.
PerSpriteOps ==
    {Setters[A] : A \in Properties} \cup {"rebase", "switchTextures"}

\* C8 as stated: an operation called with a sprite index outside
\* [0, capacity) fails with an out-of-range error instead of returning.
C8_AsStated ==
    (last.op \in PerSpriteOps /\ last.spriteIndex \notin Valid(mesh))
        => last.outcome = "failed"

\* C9 as stated: every index createSprite has handed out is in [0, capacity).
C9_AsStated ==
    \A k \in DOMAIN sprites : sprites[k].spriteIndex \in Valid(mesh)

\* C10: the k-th createSprite returns the handle of index k-1 on this mesh;
\* nextIndex is the number of createSprite calls so far, changes in no other
\* step and by one in each of them; a handle handed out stays as it is.
C10_SequentialActivation ==
    /\ [](/\ mesh.nextIndex = Len(sprites)
          /\ \A k \in DOMAIN sprites :
                sprites[k] = [spriteMesh |-> "this", spriteIndex |-> k - 1])
    /\ [][/\ mesh'.nextIndex # mesh.nextIndex
             => (last'.op = "createSprite"
                 /\ mesh'.nextIndex = mesh.nextIndex + 1)
          /\ last'.op = "createSprite"
             => (/\ mesh'.nextIndex = mesh.nextIndex + 1
                 /\ last'.spriteIndex = mesh.nextIndex
                 /\ Len(sprites') = Len(sprites) + 1)
          /\ \A k \in DOMAIN sprites :
                k \in DOMAIN sprites' /\ sprites'[k] = sprites[k]]_vars

\* Three sprites have been created, with the indexes 0, 1 and 2, and another
\* operation has been called since.
C10_Witness ==
    /\ Len(sprites) = 3
    /\ sprites[1].spriteIndex = 0
    /\ sprites[2].spriteIndex = 1
    /\ sprites[3].spriteIndex = 2
    /\ mesh.nextIndex = 3
    /\ last.op = "rebase"

\* ------------------------------------------------------ scripted scenarios

\* A step of a scripted caller from position `at` to position `next`, calling
\* an operation that leaves the mesh m2.
Scripted(at, next, op, spriteIndex, value, blend, m2) ==
    /\ pc = at
    /\ pc' = next
    /\ mesh' = m2
    /\ last' = [op |-> op, spriteIndex |-> spriteIndex, value |-> value,
                value2 |-> Undefined, blend |-> blend, outcome |-> "returned"]
    /\ UNCHANGED <<sprites, ops, script, shown>>

\* The renderer draws property A of a sprite at time t for the caller.
Draw(at, next, A, spriteIndex, t) ==
    /\ pc = at
    /\ pc' = next
    /\ shown' = Append(shown, [t |-> t,
                               value |-> Rendered(mesh, A, spriteIndex, t)])
    /\ UNCHANGED <<mesh, sprites, last, ops, script>>

\* --- Moving a brand new sprite (class comment of Sprite): the caller takes
\* note of the time `now`, creates a sprite, sets x and the timestamp, rebases
\* at `now`, then sets the x to reach and the timestamp to reach it at.

\* Date.now() at the construction of the mesh of the scenario.
MoveConstructions == {500, Pow2(28)}

\* <<x to start from, x to reach>>, the time `now`, and the duration.
MoveXs == {Num(0), <<1, 10>>} \X {Num(10), <<0 - 5, 2>>}
MoveNow == 1000
MoveDurations == {500, 3}

InitMove ==
    /\ \E c \in MoveConstructions :
          mesh = SpriteMesh(Capacity, ImageSize[1], ImageSize[2], c, "linear")
    /\ \E xs \in MoveXs, d \in MoveDurations :
          script = [kind |-> "move", a |-> xs[1], b |-> xs[2],
                    now |-> Num(MoveNow), d |-> Num(d)]
    /\ sprites = <<>>
    /\ last = NoCall
    /\ ops = 0
    /\ pc = "create"
    /\ shown = <<>>

MoveCreate ==
    /\ pc = "create"
    /\ pc' = "x"
    /\ Create
    /\ UNCHANGED <<ops, script, shown>>

MoveInitX ==
    Scripted("x", "timestamp", "setX", sprites[1].spriteIndex, script.a,
             Undefined, setX(mesh, sprites[1].spriteIndex, script.a))

MoveInitTimestamp ==
    Scripted("timestamp", "rebase", "setTimestamp", sprites[1].spriteIndex,
             script.now, Undefined,
             setTimestamp(mesh, sprites[1].spriteIndex, script.now))

MoveRebase ==
    Scripted("rebase", "x to reach", "rebase", sprites[1].spriteIndex,
             script.now,
             rebaseBlend(mesh, sprites[1].spriteIndex, script.now),
             rebase(mesh, sprites[1].spriteIndex, script.now))

MoveSetX ==
    Scripted("x to reach", "timestamp to reach", "setX",
             sprites[1].spriteIndex, script.b, Undefined,
             setX(mesh, sprites[1].spriteIndex, script.b))

MoveSetTimestamp ==
    Scripted("timestamp to reach", "draw", "setTimestamp",
             sprites[1].spriteIndex, RAdd(script.now, script.d), Undefined,
             setTimestamp(mesh, sprites[1].spriteIndex,
                          RAdd(script.now, script.d)))

\* The times the renderer draws the sprite at: the start, the middle and the
\* end of the move, and a time after it.
MoveDraws ==
    {script.now, RAdd(script.now, RDiv(script.d, Num(2))),
     RAdd(script.now, script.d), RAdd(script.now, RMul(script.d, Num(2)))}

MoveDraw ==
    \E t \in MoveDraws : Draw("draw", "done", "x", sprites[1].spriteIndex, t)

NextMove ==
    \/ MoveCreate
    \/ MoveInitX
    \/ MoveInitTimestamp
    \/ MoveRebase
    \/ MoveSetX
    \/ MoveSetTimestamp
    \/ MoveDraw

SpecMove == InitMove /\ [][NextMove]_vars

\* --- Interrupting an animation (class comment of Sprite): the caller takes
\* note of the time `now`, rebases the sprite at it, overwrites a property
\* and sets the timestamp to reach the new value at.  The renderer draws the
\* property at `now` before all this and after it.

InterruptProperties == {<<"x", Num(0)>>, <<"g", Num(200)>>,
                        <<"opacity", <<1, 4>>>>}
InterruptNows == {Num(Now), Num(Now + 2), Num(Now + 4), Num(Now + 8)}
InterruptDuration == 4

InitInterrupt ==
    /\ \E st \in Starts :
          mesh = IF st[2] = "new" THEN Constructed(st[1])
                 ELSE Prepared(Constructed(st[1]), st[2])
    /\ \E pr \in InterruptProperties, t \in InterruptNows :
          script = [kind |-> "interrupt", A |-> pr[1], v |-> pr[2],
                    now |-> t, d |-> Num(InterruptDuration)]
    /\ sprites = <<>>
    /\ last = NoCall
    /\ ops = 0
    /\ pc = "draw"
    /\ shown = <<>>

InterruptDraw == Draw("draw", "rebase", script.A, 0, script.now)

InterruptRebase ==
    /\ Carried(rebase(mesh, 0, script.now))
    /\ Scripted("rebase", "overwrite", "rebase", 0, script.now,
                rebaseBlend(mesh, 0, script.now),
                rebase(mesh, 0, script.now))

InterruptOverwrite ==
    Scripted("overwrite", "timestamp", Setters[script.A], 0, script.v,
             Undefined, Set(mesh, script.A, 0, script.v))

InterruptSetTimestamp ==
    Scripted("timestamp", "draw again", "setTimestamp", 0,
             RAdd(script.now, script.d), Undefined,
             setTimestamp(mesh, 0, RAdd(script.now, script.d)))

InterruptDrawAgain == Draw("draw again", "done", script.A, 0, script.now)

NextInterrupt ==
    \/ InterruptDraw
    \/ InterruptRebase
    \/ InterruptOverwrite
    \/ InterruptSetTimestamp
    \/ InterruptDrawAgain

SpecInterrupt == InitInterrupt /\ [][NextInterrupt]_vars

\* C2 as stated: after rebase(i, t), a new current value for a property and
\* setTimestamp(i, T) with T > t, the renderer draws the property at t as it
\* drew it at t before the rebase, with any easing.
C2_AsStated ==
    (script.kind = "interrupt" /\ pc = "done")
        => shown[2].value = shown[1].value

\* The same for a sprite in the middle of its window whose values the arrays
\* hold as they are, before and after the rebase: the only easings it can
\* fail for are those other than the linear one.
C2_AsStatedExactValues ==
    (/\ script.kind = "interrupt" /\ pc = "done"
     /\ script.A = "x" /\ script.now = Num(Now + 4)
     /\ getBaseTimestamp(mesh, 0) \in {Num(Now + 2), Num(Now + 4),
                                       Num(Now + 6)}
     /\ getBaseX(mesh, 0) \in {Num(2), Num(4), Num(6)})
        => shown[2].value = shown[1].value

\* What the move is to show of x at time t.
MoveExpected(t) ==
    IF RGe(t, RAdd(script.now, script.d)) THEN script.b
    ELSE RAdd(script.a,
              RDiv(RMul(RSub(script.b, script.a), RSub(t, script.now)),
                   script.d))

\* C6 as stated: after x := a; timestamp := t0; rebase(t0); x := b;
\* timestamp := t0 + d on a new sprite, the linearly eased x at a time t in
\* [t0, t0 + d] is a + (b - a)*(t - t0)/d, and b at a time t >= t0 + d.
C6_AsStated ==
    (script.kind = "move" /\ pc = "done")
        => shown[1].value = MoveExpected(shown[1].t)

\* C6 (amended): the same, when a and b are 32-bit floats and so are the
\* offsets of t0 and of t0 + d from the construction timestamp of the mesh.
C6_MoveNewSprite ==
    (/\ script.kind = "move" /\ pc = "done"
     /\ IsFloat32(script.a) /\ IsFloat32(script.b)
     /\ IsFloat32(RSub(script.now, mesh.constructionTimestamp))
     /\ IsFloat32(RSub(RAdd(script.now, script.d),
                       mesh.constructionTimestamp)))
        => shown[1].value = MoveExpected(shown[1].t)

\* The move from 0 at 1000 to 10 at 1500 has shown 5 at 1250.
C6_Witness ==
    /\ script.kind = "move" /\ pc = "done"
    /\ script.a = Num(0) /\ script.b = Num(10)
    /\ script.now = Num(1000) /\ script.d = Num(500)
    /\ mesh.constructionTimestamp = Num(500)
    /\ shown[1].t = Num(1250)
    /\ shown[1].value = Num(5)

\* ------------------------------------------------ switching the textures
\* A run of calls that write the texture of a sprite, MaxSwitches of them:
\* switchTextures and the two setters of the texture indexes.  Before each
\* call the caller reads the texture indexes of the sprite and keeps them in
\* `shown`.

\* What a run starts from: a new mesh, or the textureIndex of sprite 0 set.
TextureStarts == {"new", Num(SPRITE_TEXTURE_INDEX), Num(2)}

\* <<startTimestamp, endTimestamp>> of the switches: a window ahead, one that
\* ends before it starts, and one that ends more than 2^24 ms after the
\* construction.
SwitchWindows == {<<Num(Now), Num(Now + 4)>>, <<Num(Now + 8), Num(Now + 2)>>,
                  <<Num(Now + 4), Num(Now + Pow2(24) + 1)>>}

InitTextures ==
    /\ \E st \in TextureStarts :
          mesh = IF st = "new" THEN Constructed("linear")
                 ELSE setTextureIndex(Constructed("linear"), 0, st)
    /\ sprites = <<>>
    /\ last = NoCall
    /\ ops = 0
    /\ pc = "free"
    /\ script = [kind |-> "textures"]
    /\ shown = <<>>

\* A call that writes the texture of a sprite and leaves the mesh m2.
TextureCall(op, spriteIndex, value, value2, m2) ==
    /\ ops < MaxSwitches
    /\ mesh' = m2
    /\ last' = [op |-> op, spriteIndex |-> spriteIndex, value |-> value,
                value2 |-> value2, blend |-> Undefined, outcome |-> "returned"]
    /\ ops' = ops + 1
    /\ shown' = Append(shown,
                   [op |-> op, spriteIndex |-> spriteIndex,
                    textureIndex |-> getTextureIndex(mesh, spriteIndex),
                    baseTextureIndex |-> getBaseTextureIndex(mesh, spriteIndex)])
    /\ UNCHANGED <<sprites, pc, script>>

NextTextures ==
    \/ \E i \in Indexes, w \in SwitchWindows :
          TextureCall("switchTextures", i, w[1], w[2],
                      switchTextures(mesh, i, w[1], w[2]))
    \/ \E i \in Indexes :
          TextureCall("setTextureIndex", i, Num(2), Undefined,
                      setTextureIndex(mesh, i, Num(2)))
    \/ \E i \in Indexes :
          TextureCall("setBaseTextureIndex", i, Num(SPRITE_TEXTURE_INDEX),
                      Undefined,
                      setBaseTextureIndex(mesh, i, Num(SPRITE_TEXTURE_INDEX)))

SpecTextures == InitTextures /\ [][NextTextures]_vars

\* The slot switchTextures turns the texture index to.
OtherSlot(textureIndex) ==
    IF textureIndex = Num(DEFAULT_TEXTURE_INDEX)
    THEN Num(SPRITE_TEXTURE_INDEX)
    ELSE Num(DEFAULT_TEXTURE_INDEX)

\* C11 as stated: after switchTextures(i, start, end) baseTextureIndex(i) is
\* the textureIndex(i) of before the call, textureIndex(i) is 1 if it was 0
\* and 0 otherwise, baseTextureTimestamp(i) = start and textureTimestamp(i) =
\* end, whatever the base texture index and the texture timestamps were.
C11_AsStated ==
    [][(last'.op = "switchTextures" /\ last'.spriteIndex \in Valid(mesh))
        => \A before \in {Read(mesh, last'.spriteIndex)},
              after \in {Read(mesh', last'.spriteIndex)} :
              /\ after.baseTextureIndex = before.textureIndex
              /\ after.textureIndex = OtherSlot(before.textureIndex)
              /\ after.baseTextureTimestamp = last'.value
              /\ after.textureTimestamp = last'.value2]_vars

\* C11 (amended): the same, with baseTextureTimestamp(i) and
\* textureTimestamp(i) reading start and end as the timestamp arrays hold
\* them: the construction timestamp plus the offset from it rounded to a
\* 32-bit float.
C11_SwitchTextures ==
    [][(last'.op = "switchTextures" /\ last'.spriteIndex \in Valid(mesh))
        => \A before \in {Read(mesh, last'.spriteIndex)},
              after \in {Read(mesh', last'.spriteIndex)} :
              /\ after.baseTextureIndex = before.textureIndex
              /\ after.textureIndex = OtherSlot(before.textureIndex)
              /\ after.baseTextureTimestamp
                    = ReadBack(mesh, "baseTextureTimestamp", last'.value)
              /\ after.textureTimestamp
                    = ReadBack(mesh, "textureTimestamp", last'.value2)]_vars

\* A switch has been called on sprite 0 while the window of the switch
\* before it was open, and has restarted the window: the texture index is
\* back to the default slot and the base is the sprite slot.
C11_Witness ==
    /\ script.kind = "textures"
    /\ Len(shown) = 2
    /\ shown[1].op = "switchTextures" /\ shown[1].spriteIndex = 0
    /\ shown[1].textureIndex = Num(DEFAULT_TEXTURE_INDEX)
    /\ last.op = "switchTextures" /\ last.spriteIndex = 0
    /\ last.value = Num(Now + 8) /\ last.value2 = Num(Now + 2)
    /\ getTextureIndex(mesh, 0) = Num(DEFAULT_TEXTURE_INDEX)
    /\ getBaseTextureIndex(mesh, 0) = Num(SPRITE_TEXTURE_INDEX)
    /\ getBaseTextureTimestamp(mesh, 0) = Num(Now + 8)
    /\ getTextureTimestamp(mesh, 0) = Num(Now + 2)

\* The sprite switchTextures was called on twice in succession, by the last
\* two calls of the run; {} if they were not that.
SwitchedTwice ==
    IF /\ script.kind = "textures"
       /\ Len(shown) >= 2
       /\ shown[Len(shown)].op = "switchTextures"
       /\ shown[Len(shown) - 1].op = "switchTextures"
       /\ shown[Len(shown)].spriteIndex = shown[Len(shown) - 1].spriteIndex
    THEN {shown[Len(shown)].spriteIndex} \cap Valid(mesh)
    ELSE {}

\* C12 as stated: after two switchTextures calls in succession on sprite i,
\* textureIndex(i) is what it was before the first call and
\* baseTextureIndex(i) is the other slot, the value textureIndex(i) held
\* between the two calls.
C12_AsStated ==
    \A i \in SwitchedTwice :
       /\ getTextureIndex(mesh, i) = shown[Len(shown) - 1].textureIndex
       /\ getBaseTextureIndex(mesh, i) = shown[Len(shown)].textureIndex
       /\ getBaseTextureIndex(mesh, i) = OtherSlot(getTextureIndex(mesh, i))

\* C12 (amended): the same for a sprite whose textureIndex was one of the
\* two slots, 0 or 1, before the first call; from any other textureIndex the
\* two calls leave the sprite slot with the default slot as its base.
C12_RoundTrip ==
    \A i \in SwitchedTwice :
       IF shown[Len(shown) - 1].textureIndex
             \in {Num(DEFAULT_TEXTURE_INDEX), Num(SPRITE_TEXTURE_INDEX)}
       THEN /\ getTextureIndex(mesh, i) = shown[Len(shown) - 1].textureIndex
            /\ getBaseTextureIndex(mesh, i) = shown[Len(shown)].textureIndex
            /\ getBaseTextureIndex(mesh, i)
                  = OtherSlot(getTextureIndex(mesh, i))
       ELSE /\ getTextureIndex(mesh, i) = Num(SPRITE_TEXTURE_INDEX)
            /\ getBaseTextureIndex(mesh, i) = Num(DEFAULT_TEXTURE_INDEX)

\* Two switches in succession, with different timestamps, have taken sprite
\* 0 from the sprite slot to the default slot and back.
C12_Witness ==
    /\ 0 \in SwitchedTwice
    /\ shown[1].textureIndex = Num(SPRITE_TEXTURE_INDEX)
    /\ shown[2].textureIndex = Num(DEFAULT_TEXTURE_INDEX)
    /\ last.value = Num(Now + 4)
    /\ getTextureIndex(mesh, 0) = Num(SPRITE_TEXTURE_INDEX)
    /\ getBaseTextureIndex(mesh, 0) = Num(DEFAULT_TEXTURE_INDEX)
    /\ getBaseTextureTimestamp(mesh, 0) = Num(Now + 4)

\* ------------------------------------------------------------- findSprites

\* findSprites that takes the far corner of a sprite to be its near one.
findSprites_NearCorner(m, x, y) ==
    SelectSeq([k \in 1..m.capacity |-> k - 1],
              LAMBDA spriteIndex :
                 /\ RGe(x, ReadF32(m.positionData, spriteIndex * POSITIONS_PER_SPRITE + AX))
                 /\ RLe(x, ReadF32(m.positionData, spriteIndex * POSITIONS_PER_SPRITE + AX))
                 /\ RGe(y, ReadF32(m.positionData, spriteIndex * POSITIONS_PER_SPRITE + AY))
                 /\ RLe(y, ReadF32(m.positionData, spriteIndex * POSITIONS_PER_SPRITE + AY)))


\* findSprites that looks at the sprites createSprite has handed out only.
findSprites_Created(m, x, y) ==
    SelectSeq([k \in 1..m.capacity |-> k - 1],
              LAMBDA spriteIndex :
                 /\ spriteIndex < m.nextIndex
                 /\ RGe(x, ReadF32(m.positionData, spriteIndex * POSITIONS_PER_SPRITE + AX))
                 /\ RLe(x, ReadF32(m.positionData, spriteIndex * POSITIONS_PER_SPRITE + CX))
                 /\ RGe(y, ReadF32(m.positionData, spriteIndex * POSITIONS_PER_SPRITE + AY))
                 /\ RLe(y, ReadF32(m.positionData, spriteIndex * POSITIONS_PER_SPRITE + CY)))

\* SpriteMesh.findSprites(x, y): the indexes the loop pushes, in its order.
findSprites(m, x, y) ==
    SelectSeq([k \in 1..m.capacity |-> k - 1],
              LAMBDA spriteIndex :
                 /\ RGe(x, ReadF32(m.positionData, spriteIndex * POSITIONS_PER_SPRITE + AX))
                 /\ RLe(x, ReadF32(m.positionData, spriteIndex * POSITIONS_PER_SPRITE + CX))
                 /\ RGe(y, ReadF32(m.positionData, spriteIndex * POSITIONS_PER_SPRITE + AY))
                 /\ RLe(y, ReadF32(m.positionData, spriteIndex * POSITIONS_PER_SPRITE + CY)))

\* A caller places a sprite with setX and setY, may then write another
\* property of it, and asks findSprites for the sprites at a point; `script`
\* keeps the sprite and the position given to the setters, `shown` what
\* findSprites returned.
InitFind ==
    /\ \E st \in {"new", <<0, 8>>} :
          mesh = IF st = "new" THEN Constructed("linear")
                 ELSE Prepared(Constructed("linear"), st)
    /\ sprites = <<>>
    /\ last = NoCall
    /\ ops = 0
    /\ pc = "place"
    /\ script = [kind |-> "find"]
    /\ shown = <<>>

NextFind ==
    \/ \E i \in {0, Capacity - 1}, x0 \in {<<1, 10>>, Num(3)} :
          /\ pc = "place"
          /\ pc' = "place y"
          /\ mesh' = setX(mesh, i, x0)
          /\ script' = [kind |-> "find", spriteIndex |-> i, x |-> x0]
          /\ last' = [NoCall EXCEPT !.op = "setX", !.spriteIndex = i,
                                    !.value = x0]
          /\ UNCHANGED <<sprites, ops, shown>>
    \/ \E y0 \in {<<1, 10>>, Num(4)} :
          /\ pc = "place y"
          /\ pc' = "placed"
          /\ mesh' = setY(mesh, script.spriteIndex, y0)
          /\ script' = [kind |-> "find", spriteIndex |-> script.spriteIndex,
                        x |-> script.x, y |-> y0]
          /\ last' = [NoCall EXCEPT !.op = "setY",
                                    !.spriteIndex = script.spriteIndex,
                                    !.value = y0]
          /\ UNCHANGED <<sprites, ops, shown>>
    \/ \E A \in {"z", "baseX", "baseY", "timestamp", "baseTimestamp", "g",
                 "opacity", "textureIndex"} :
          \E v \in Values(A) :
             Scripted("placed", "written", Setters[A], script.spriteIndex, v,
                      Undefined, Set(mesh, A, script.spriteIndex, v))
    \/ \E x \in {Num(0), <<1, 10>>, Num(2), <<21, 10>>, Num(3), Num(5),
                 Num(6)},
          y \in {Num(0), <<1, 10>>, Num(1), <<11, 10>>, Num(4), Num(5),
                 Num(6)} :
          /\ pc \in {"placed", "written"}
          /\ pc' = "done"
          /\ shown' = Append(shown, [x |-> x, y |-> y,
                                     found |-> findSprites(mesh, x, y)])
          /\ last' = [NoCall EXCEPT !.op = "findSprites", !.value = x,
                                    !.value2 = y]
          /\ UNCHANGED <<mesh, sprites, ops, script>>

SpecFind == InitFind /\ [][NextFind]_vars

\* The sprites a sequence of indexes names.
Found(found) == {found[k] : k \in DOMAIN found}

\* The point (x, y) is inside the quad of sprite j as positionData holds it.
InQuad(m, j, x, y) ==
    /\ RLe(ReadF32(m.positionData, j * POSITIONS_PER_SPRITE + AX), x)
    /\ RLe(x, ReadF32(m.positionData, j * POSITIONS_PER_SPRITE + CX))
    /\ RLe(ReadF32(m.positionData, j * POSITIONS_PER_SPRITE + AY), y)
    /\ RLe(y, ReadF32(m.positionData, j * POSITIONS_PER_SPRITE + CY))

\* C13 as stated: for a sprite i placed at (x0, y0) by the setters, with
\* the sprite width w and height h of the mesh, findSprites(x, y) includes i
\* if and only if x0 <= x <= x0 + w and y0 <= y <= y0 + h, whatever the other
\* properties of i are; findSprites changes nothing, and returns an empty
\* list when no sprite matches.
C13_AsStated ==
    /\ [](pc = "done"
           => /\ script.spriteIndex \in Found(shown[1].found)
                 <=> /\ RLe(script.x, shown[1].x)
                     /\ RLe(shown[1].x, RAdd(script.x, mesh.spriteWidth))
                     /\ RLe(script.y, shown[1].y)
                     /\ RLe(shown[1].y, RAdd(script.y, mesh.spriteHeight))
              /\ Found(shown[1].found)
                    = {j \in Valid(mesh) : InQuad(mesh, j, shown[1].x,
                                                  shown[1].y)})
    /\ [][last'.op = "findSprites" => mesh' = mesh]_vars

\* C13 (amended): the same with the bounds of the sprite as positionData
\* holds them, each rounded to a 32-bit float: i is included if and only if
\* fround(x0) <= x <= fround(x0 + w) and fround(y0) <= y <= fround(y0 + h).
C13_FindSprites ==
    /\ [](pc = "done"
           => /\ script.spriteIndex \in Found(shown[1].found)
                 <=> /\ RLe(Fround(script.x), shown[1].x)
                     /\ RLe(shown[1].x,
                            Fround(RAdd(script.x, mesh.spriteWidth)))
                     /\ RLe(Fround(script.y), shown[1].y)
                     /\ RLe(shown[1].y,
                            Fround(RAdd(script.y, mesh.spriteHeight)))
              /\ Found(shown[1].found)
                    = {j \in Valid(mesh) : InQuad(mesh, j, shown[1].x,
                                                  shown[1].y)})
    /\ [][last'.op = "findSprites" => mesh' = mesh]_vars

\* findSprites has found the last sprite, placed at (3, 4), and no other at
\* the far corner of its quad, (5, 5), after its base x was written.
C13_Witness ==
    /\ script.kind = "find" /\ pc = "done"
    /\ script.spriteIndex = Capacity - 1
    /\ script.x = Num(3) /\ script.y = Num(4)
    /\ last.op = "findSprites"
    /\ shown[1].x = Num(5) /\ shown[1].y = Num(5)
    /\ shown[1].found = <<Capacity - 1>>
    /\ getBaseX(mesh, Capacity - 1) # Num(0)

\* The array that holds timestamp property A.
TimeData(m, A) ==
    CASE A = "timestamp" -> m.timestampData
      [] A = "baseTimestamp" -> m.baseTimestampData
      [] A = "textureTimestamp" -> m.textureTimestampData
      [] A = "baseTextureTimestamp" -> m.baseTextureTimestampData

\* C14 as stated: a setter of one of the four timestamps called with T
\* stores T - constructionTimestamp in the four corner cells of the sprite,
\* the getter returns the stored value plus constructionTimestamp, which is
\* T; no operation changes constructionTimestamp.
C14_AsStated ==
    [][/\ mesh'.constructionTimestamp = mesh.constructionTimestamp
       /\ \A A \in TimeProperties :
             (last'.op = Setters[A] /\ last'.spriteIndex \in Valid(mesh))
                => /\ \A V \in {AV, BV, CV, DV} :
                         TimeData(mesh', A)[last'.spriteIndex
                                               * VERTICES_PER_SPRITE + V]
                            = RSub(last'.value, mesh.constructionTimestamp)
                   /\ Read(mesh', last'.spriteIndex)[A] = last'.value]_vars

\* C14 (amended): the setter stores T - constructionTimestamp rounded to a
\* 32-bit float in the four corner cells, and the getter returns the stored
\* value plus constructionTimestamp; no operation changes
\* constructionTimestamp.
C14_TimestampOffset ==
    [][/\ mesh'.constructionTimestamp = mesh.constructionTimestamp
       /\ \A A \in TimeProperties :
             (last'.op = Setters[A] /\ last'.spriteIndex \in Valid(mesh))
                => /\ \A V \in {AV, BV, CV, DV} :
                         TimeData(mesh', A)[last'.spriteIndex
                                               * VERTICES_PER_SPRITE + V]
                            = Fround(RSub(last'.value,
                                          mesh.constructionTimestamp))
                   /\ Read(mesh', last'.spriteIndex)[A]
                         = RAdd(TimeData(mesh', A)[last'.spriteIndex
                                                      * VERTICES_PER_SPRITE],
                                mesh.constructionTimestamp)]_vars

\* The texture timestamp of the last sprite has been set to Now + 4 on a
\* mesh constructed at Now: its cells hold 4 and the getter returns Now + 4.
C14_Witness ==
    /\ last.op = "setTextureTimestamp"
    /\ last.spriteIndex = Capacity - 1
    /\ last.value = Num(Now + 4)
    /\ mesh.constructionTimestamp = Num(Now)
    /\ mesh.textureTimestampData[(Capacity - 1) * VERTICES_PER_SPRITE + DV]
          = Num(4)
    /\ getTextureTimestamp(mesh, Capacity - 1) = Num(Now + 4)

\* The attribute of the geometry that holds property A.
Group(A) ==
    IF A \in {"x", "y", "z"} THEN "position"
    ELSE IF A \in {"baseX", "baseY", "baseZ"} THEN "basePosition"
    ELSE IF A \in {"r", "g", "b", "a"} THEN "color"
    ELSE IF A \in {"baseR", "baseG", "baseB", "baseA"} THEN "baseColor"
    ELSE A

\* The array of an attribute of the geometry.
Data(m, at) == m[at \o "Data"]

\* The cells of the array of property A that belong to the sprite at
\* spriteIndex and to A: one for each corner of the sprite.
Cells(A, spriteIndex) ==
    IF A \in {"x", "baseX"}
    THEN {spriteIndex * POSITIONS_PER_SPRITE + c : c \in {AX, BX, CX, DX}}
    ELSE IF A \in {"y", "baseY"}
    THEN {spriteIndex * POSITIONS_PER_SPRITE + c : c \in {AY, BY_, CY, DY}}
    ELSE IF A \in {"z", "baseZ"}
    THEN {spriteIndex * POSITIONS_PER_SPRITE + c : c \in {AZ, BZ, CZ, DZ}}
    ELSE IF A \in {"r", "baseR"}
    THEN {spriteIndex * COLORS_PER_SPRITE + c : c \in {AR, BR, CR, DR}}
    ELSE IF A \in {"g", "baseG"}
    THEN {spriteIndex * COLORS_PER_SPRITE + c : c \in {AG, BG, CG, DG}}
    ELSE IF A \in {"b", "baseB"}
    THEN {spriteIndex * COLORS_PER_SPRITE + c : c \in {AB, BB, CB, DB}}
    ELSE IF A \in {"a", "baseA"}
    THEN {spriteIndex * COLORS_PER_SPRITE + c : c \in {AA, BA, CA, DA}}
    ELSE {spriteIndex * VERTICES_PER_SPRITE + c : c \in {AV, BV, CV, DV}}

\* The cells of an array that differ between two meshes.
Changed(m1, m2, at) ==
    {k \in DOMAIN Data(m1, at) : Data(m2, at)[k] # Data(m1, at)[k]}

\* C15: the setter of property A called on sprite i changes no cell of any
\* array but the corner cells of A of sprite i: not the base or current twin
\* of A, not another property of i, not a property of another sprite.
C15_SetterFrame ==
    [][\A A \in Properties :
          last'.op = Setters[A]
             => /\ \A at \in Attributes \ {Group(A)} :
                      Data(mesh', at) = Data(mesh, at)
                /\ DOMAIN Data(mesh', Group(A)) = DOMAIN Data(mesh, Group(A))
                /\ Changed(mesh, mesh', Group(A))
                      \subseteq Cells(A, last'.spriteIndex)
                /\ mesh'.nextIndex = mesh.nextIndex
                /\ mesh'.material = mesh.material]_vars

\* The base x of the moving sprite has been set: its corner cells hold the
\* new value and the new value plus the sprite width, and the current x and
\* the base y of the sprite are what they were.
C15_Witness ==
    /\ last.op = "setBaseX"
    /\ last.spriteIndex = 0
    /\ mesh.basePositionData[AX] = Fround(last.value)
    /\ mesh.basePositionData[CX] = Fround(RAdd(last.value, mesh.spriteWidth))
    /\ getBaseX(mesh, 0) # Num(0)
    /\ getX(mesh, 0) = Num(8)
    /\ getBaseY(mesh, 0) = Num(1)
    /\ 1 \in Valid(mesh)

\* Runs of one call of any operation, from a sprite whose texture index is
\* any of those of TextureStarts.
SpecMutators == InitTextures /\ [][Next]_vars

\* C16 as stated: textureIndex(i) and baseTextureIndex(i) change only by
\* switchTextures(i, ...).
C16_AsStated ==
    [][\A at \in {"textureIndex", "baseTextureIndex"} :
          Changed(mesh, mesh', at) # {}
             => /\ last'.op = "switchTextures"
                /\ Changed(mesh, mesh', at)
                      \subseteq Cells(at, last'.spriteIndex)]_vars

\* C16 (amended): textureIndex(i) changes only by switchTextures(i, ...) or
\* setTextureIndex(i, v), and baseTextureIndex(i) only by
\* switchTextures(i, ...) or setBaseTextureIndex(i, v).
C16_TextureMutators ==
    [][\A at \in {"textureIndex", "baseTextureIndex"} :
          Changed(mesh, mesh', at) # {}
             => /\ last'.op \in {"switchTextures", Setters[at]}
                /\ Changed(mesh, mesh', at)
                      \subseteq Cells(at, last'.spriteIndex)]_vars

\* The setter of the base texture index has changed the base texture index
\* of a sprite whose texture index is 2, without a switch.
C16_Witness ==
    /\ script.kind = "textures"
    /\ last.op = "setBaseTextureIndex"
    /\ last.spriteIndex = 0
    /\ getBaseTextureIndex(mesh, 0) = Num(SPRITE_TEXTURE_INDEX)
    /\ getTextureIndex(mesh, 0) = Num(2)

\* The attributes of the geometry switchTextures writes.
TextureAttributes == {"textureIndex", "baseTextureIndex", "textureTimestamp",
                      "baseTextureTimestamp"}

\* C17: switchTextures(i, start, end) changes no cell of any array but the
\* corner cells of textureIndex, baseTextureIndex, textureTimestamp and
\* baseTextureTimestamp of sprite i: the position, color, opacity, timestamp
\* and baseTimestamp of every sprite, base and current, and the texture
\* properties of every other sprite are as before.
C17_SwitchTexturesFrame ==
    [][last'.op = "switchTextures"
        => /\ \A at \in Attributes \ TextureAttributes :
                 Data(mesh', at) = Data(mesh, at)
           /\ \A at \in TextureAttributes :
                 /\ DOMAIN Data(mesh', at) = DOMAIN Data(mesh, at)
                 /\ Changed(mesh, mesh', at)
                       \subseteq Cells(at, last'.spriteIndex)
           /\ mesh'.nextIndex = mesh.nextIndex
           /\ mesh'.material = mesh.material
           /\ mesh'.constructionTimestamp = mesh.constructionTimestamp]_vars

\* The texture of the moving sprite has been switched: its position, color
\* and the window of its move are what they were, and so is the texture of
\* the other sprite.
C17_Witness ==
    /\ script.kind = "none"
    /\ last.op = "switchTextures"
    /\ last.spriteIndex = 0
    /\ getTextureIndex(mesh, 0) = Num(SPRITE_TEXTURE_INDEX)
    /\ getTextureTimestamp(mesh, 0) = Num(Now + 4)
    /\ getX(mesh, 0) = Num(8) /\ getBaseX(mesh, 0) = Num(0)
    /\ getG(mesh, 0) = Num(128) /\ getBaseOpacity(mesh, 0) = <<1, 2>>
    /\ getTimestamp(mesh, 0) = Num(Now + 8)
    /\ getBaseTimestamp(mesh, 0) = Num(Now)
    /\ getTextureIndex(mesh, 1) = Num(DEFAULT_TEXTURE_INDEX)
    /\ getTextureTimestamp(mesh, 1) = Num(Now)

\* ------------------------------------------------------- reading the mesh
\* Runs of Spec in which the caller may also read the mesh: a getter or
\* findSprites, whose result it keeps in `shown`.

NextRead ==
    \/ Next
    \/ \E A \in Properties, i \in {0, Capacity} :
          /\ ops < MaxOps
          /\ ops' = ops + 1
          /\ shown' = Append(shown, [A |-> A, spriteIndex |-> i,
                                     value |-> Read(mesh, i)[A]])
          /\ last' = [NoCall EXCEPT !.op = "get", !.spriteIndex = i]
          /\ UNCHANGED <<mesh, sprites, pc, script>>
    \/ \E p \in {<<Num(8), Num(4)>>, <<Num(0), Num(0)>>} :
          /\ ops < MaxOps
          /\ ops' = ops + 1
          /\ shown' = Append(shown, [x |-> p[1], y |-> p[2],
                                     found |-> findSprites(mesh, p[1], p[2])])
          /\ last' = [NoCall EXCEPT !.op = "findSprites", !.value = p[1],
                                    !.value2 = p[2]]
          /\ UNCHANGED <<mesh, sprites, pc, script>>

SpecRead == Init /\ [][NextRead]_vars

\* The attributes of the geometry an operation marks for the renderer.
Marked(op) ==
    IF op = "rebase"
    THEN {"basePosition", "baseColor", "baseOpacity", "baseTimestamp"}
    ELSE IF op = "switchTextures" THEN TextureAttributes
    ELSE {Group(A) : A \in {B \in Properties : Setters[B] = op}}

\* C18: a setter sets the needsUpdate flag of the attribute that holds its
\* property and of no other, rebase those of basePosition, baseColor,
\* baseOpacity and baseTimestamp and no other, switchTextures those of the
\* four texture attributes and no other; a getter and findSprites set none.
\* A flag that is not set by the call is as it was.
C18_DirtySignalling ==
    [][\A at \in Attributes :
          mesh'.needsUpdate[at]
             = (mesh.needsUpdate[at] \/ at \in Marked(last'.op))]_vars

\* A rebase has marked the four base attributes it writes and nothing else.
C18_Witness ==
    /\ last.op = "rebase"
    /\ last.spriteIndex = 0
    /\ getBaseX(mesh, 0) # Num(0)
    /\ \A at \in Attributes :
          mesh.needsUpdate[at]
             <=> at \in {"basePosition", "baseColor", "baseOpacity",
                         "baseTimestamp"}

\* ---------------------------------------------------------------- handles
\* The Sprite class: a handle holds the mesh and an index (both private and
\* assigned by the constructor only) and forwards every call to the mesh, m.

\* A handle that reads the first sprite of the mesh whatever its index.
SpriteGet_First(sprite, m, A) == Read(m, 0)[A]

\* sprite[A]: the getter of property A of a Sprite.
SpriteGet(sprite, m, A) ==
    CASE A = "x" -> getX(m, sprite.spriteIndex)
      [] A = "y" -> getY(m, sprite.spriteIndex)
      [] A = "z" -> getZ(m, sprite.spriteIndex)
      [] A = "r" -> getR(m, sprite.spriteIndex)
      [] A = "g" -> getG(m, sprite.spriteIndex)
      [] A = "b" -> getB(m, sprite.spriteIndex)
      [] A = "a" -> getA(m, sprite.spriteIndex)
      [] A = "opacity" -> getOpacity(m, sprite.spriteIndex)
      [] A = "timestamp" -> getTimestamp(m, sprite.spriteIndex)
      [] A = "baseX" -> getBaseX(m, sprite.spriteIndex)
      [] A = "baseY" -> getBaseY(m, sprite.spriteIndex)
      [] A = "baseZ" -> getBaseZ(m, sprite.spriteIndex)
      [] A = "baseR" -> getBaseR(m, sprite.spriteIndex)
      [] A = "baseG" -> getBaseG(m, sprite.spriteIndex)
      [] A = "baseB" -> getBaseB(m, sprite.spriteIndex)
      [] A = "baseA" -> getBaseA(m, sprite.spriteIndex)
      [] A = "baseOpacity" -> getBaseOpacity(m, sprite.spriteIndex)
      [] A = "baseTimestamp" -> getBaseTimestamp(m, sprite.spriteIndex)
      [] A = "textureIndex" -> getTextureIndex(m, sprite.spriteIndex)
      [] A = "baseTextureIndex" -> getBaseTextureIndex(m, sprite.spriteIndex)
      [] A = "textureTimestamp" -> getTextureTimestamp(m, sprite.spriteIndex)
      [] A = "baseTextureTimestamp" -> getBaseTextureTimestamp(m, sprite.spriteIndex)

\* sprite[A] = v: the setter of property A of a Sprite; the mesh after it.
SpriteSet(sprite, m, A, v) ==
    CASE A = "x" -> setX(m, sprite.spriteIndex, v)
      [] A = "y" -> setY(m, sprite.spriteIndex, v)
      [] A = "z" -> setZ(m, sprite.spriteIndex, v)
      [] A = "r" -> setR(m, sprite.spriteIndex, v)
      [] A = "g" -> setG(m, sprite.spriteIndex, v)
      [] A = "b" -> setB(m, sprite.spriteIndex, v)
      [] A = "a" -> setA(m, sprite.spriteIndex, v)
      [] A = "opacity" -> setOpacity(m, sprite.spriteIndex, v)
      [] A = "timestamp" -> setTimestamp(m, sprite.spriteIndex, v)
      [] A = "baseX" -> setBaseX(m, sprite.spriteIndex, v)
      [] A = "baseY" -> setBaseY(m, sprite.spriteIndex, v)
      [] A = "baseZ" -> setBaseZ(m, sprite.spriteIndex, v)
      [] A = "baseR" -> setBaseR(m, sprite.spriteIndex, v)
      [] A = "baseG" -> setBaseG(m, sprite.spriteIndex, v)
      [] A = "baseB" -> setBaseB(m, sprite.spriteIndex, v)
      [] A = "baseA" -> setBaseA(m, sprite.spriteIndex, v)
      [] A = "baseOpacity" -> setBaseOpacity(m, sprite.spriteIndex, v)
      [] A = "baseTimestamp" -> setBaseTimestamp(m, sprite.spriteIndex, v)
      [] A = "textureIndex" -> setTextureIndex(m, sprite.spriteIndex, v)
      [] A = "baseTextureIndex" -> setBaseTextureIndex(m, sprite.spriteIndex, v)
      [] A = "textureTimestamp" -> setTextureTimestamp(m, sprite.spriteIndex, v)
      [] A = "baseTextureTimestamp" -> setBaseTextureTimestamp(m, sprite.spriteIndex, v)

\* A caller makes handles, up to MaxCreates of them, on the first and the
\* last sprite, and then calls one operation through one of them; `script`
\* keeps which.
InitHandles ==
    /\ \E st \in {"new", <<0, 8>>} :
          mesh = IF st = "new" THEN Constructed("linear")
                 ELSE Prepared(Constructed("linear"), st)
    /\ sprites = <<>>
    /\ last = NoCall
    /\ ops = 0
    /\ pc = "free"
    /\ script = [kind |-> "handle", handle |-> 0]
    /\ shown = <<>>

NextHandles ==
    \/ \E i \in {0, Capacity - 1} :
          /\ pc = "free"
          /\ Len(sprites) < MaxCreates
          /\ sprites' = Append(sprites, Sprite("this", i))
          /\ UNCHANGED <<mesh, last, ops, pc, script, shown>>
    \/ \E h \in DOMAIN sprites :
          \E c \in {[op |-> Setters[pv[1]], A |-> pv[1], value |-> pv[2],
                      value2 |-> Undefined] :
                        pv \in UNION {{A} \X Values(A) : A \in Properties}}
                   \cup {[op |-> "rebase", A |-> "none", value |-> t,
                           value2 |-> Undefined] :
                             t \in {Num(Now + 4), Undefined}}
                   \cup {[op |-> "switchTextures", A |-> "none",
                           value |-> Num(Now), value2 |-> Num(Now + 4)]} :
             /\ pc = "free"
             /\ pc' = "called"
             /\ mesh' = IF c.op = "rebase"
                        THEN rebase(mesh, sprites[h].spriteIndex, c.value)
                        ELSE IF c.op = "switchTextures"
                        THEN switchTextures(mesh, sprites[h].spriteIndex,
                                            c.value, c.value2)
                        ELSE SpriteSet(sprites[h], mesh, c.A, c.value)
             /\ Carried(mesh')
             /\ last' = [NoCall EXCEPT !.op = c.op,
                                       !.spriteIndex = sprites[h].spriteIndex,
                                       !.value = c.value,
                                       !.value2 = c.value2]
             /\ script' = [kind |-> "handle", handle |-> h]
             /\ UNCHANGED <<sprites, ops, shown>>

SpecHandles == InitHandles /\ [][NextHandles]_vars

\* What the operation of SpriteMesh of the name and arguments of the last
\* call leaves of mesh m when called with spriteIndex.
MeshCall(m, call, spriteIndex) ==
    IF call.op = "rebase" THEN rebase(m, spriteIndex, call.value)
    ELSE IF call.op = "switchTextures"
    THEN switchTextures(m, spriteIndex, call.value, call.value2)
    ELSE Set(m, CHOOSE A \in Properties : Setters[A] = call.op, spriteIndex,
             call.value)

\* C19: an operation called through a handle (a setter, rebase,
\* switchTextures) leaves the mesh as the operation of SpriteMesh of the
\* same name called with the index of the handle does, and leaves every
\* handle as it was; after it every getter of every handle on the same
\* index returns what the getter of SpriteMesh of the same name returns for
\* that index, so all of them return the same and see the write.
C19_StatelessHandles ==
    [][pc' = "called"
        => \A h \in {script'.handle} :
              /\ sprites' = sprites
              /\ mesh' = MeshCall(mesh, last', sprites[h].spriteIndex)
              /\ \A g \in DOMAIN sprites :
                    sprites[g].spriteIndex = sprites[h].spriteIndex
                       => \A after \in {Read(mesh', sprites[h].spriteIndex)} :
                             \A A \in Properties :
                                SpriteGet(sprites'[g], mesh', A) = after[A]]_vars

\* Two handles are on the moving sprite and one on the other sprite; g has
\* been set through the first handle, and the second handle reads the new
\* value where the third reads 0.
C19_Witness ==
    /\ script.kind = "handle" /\ pc = "called"
    /\ script.handle = 1
    /\ Len(sprites) = 3
    /\ sprites[1].spriteIndex = 0 /\ sprites[2].spriteIndex = 0
    /\ sprites[3].spriteIndex = 1
    /\ last.op = "setG"
    /\ SpriteGet(sprites[2], mesh, "g") = Num(44)
    /\ SpriteGet(sprites[2], mesh, "r") = Num(255)
    /\ SpriteGet(sprites[3], mesh, "g") = Num(0)

\* The blend of the window of sprite i at a time t strictly inside it.
InsideBlend(m, i, t) ==
    applyEasing(m.material,
        RDiv(RSub(t, getBaseTimestamp(m, i)),
             RSub(getTimestamp(m, i), getBaseTimestamp(m, i))))

\* rebase(i, t) is called with t strictly inside the window of sprite i.
InsideWindow(m, i, t) ==
    /\ i \in Valid(m)
    /\ RLt(getBaseTimestamp(m, i), t)
    /\ RLt(t, getTimestamp(m, i))

InitRebases ==
    /\ \E st \in Starts \cup {<<"linear", <<0, Pow2(24)>>>>} :
          mesh = IF st[2] = "new" THEN Constructed(st[1])
                 ELSE Prepared(Constructed(st[1]), st[2])
    /\ sprites = <<>>
    /\ last = NoCall
    /\ ops = 0
    /\ pc = "free"
    /\ script = [kind |-> "rebases"]
    /\ shown = <<>>

\* A rebase of the first or the last sprite: at one of Times, at the time of
\* the mesh, or at a time whose offset from the construction (2^24 + 3) is
\* stored rounded up.
NextRebases ==
    \E i \in {0, Capacity - 1},
       t \in Times \cup {Undefined, Num(Now + Pow2(24) + 3)} :
       /\ ops < MaxRebases
       /\ ops' = ops + 1
       /\ mesh' = rebase(mesh, i, t)
       /\ Carried(mesh')
       /\ last' = [op |-> "rebase", spriteIndex |-> i,
                   value |-> rebaseTimestamp(mesh, t), value2 |-> Undefined,
                   blend |-> rebaseBlend(mesh, i, rebaseTimestamp(mesh, t)),
                   outcome |-> "returned"]
       /\ shown' = Append(shown, [spriteIndex |-> i,
                                  t |-> rebaseTimestamp(mesh, t),
                                  before |-> Read(mesh, i)])
       /\ UNCHANGED <<sprites, pc, script>>

SpecRebases == InitRebases /\ [][NextRebases]_vars

\* The base properties rebase writes.
BaseProperties == {"baseX", "baseY", "baseZ", "baseR", "baseG", "baseB",
                   "baseA", "baseOpacity"}

\* The base twin of a blended property and the current twin of a base one.
Twin(A) ==
    CASE A = "x" -> "baseX" [] A = "y" -> "baseY" [] A = "z" -> "baseZ"
      [] A = "r" -> "baseR" [] A = "g" -> "baseG" [] A = "b" -> "baseB"
      [] A = "a" -> "baseA" [] A = "opacity" -> "baseOpacity"
      [] A = "baseX" -> "x" [] A = "baseY" -> "y" [] A = "baseZ" -> "z"
      [] A = "baseR" -> "r" [] A = "baseG" -> "g" [] A = "baseB" -> "b"
      [] A = "baseA" -> "a" [] A = "baseOpacity" -> "opacity"

\* A sprite, as read, is in no transition: every base value is the current
\* value and the window is empty.
NoTransition(read) ==
    /\ \A A \in Blended : read[Twin(A)] = read[A]
    /\ read.baseTimestamp = read.timestamp

\* C21 as stated: rebase(i, t), for any t, of a sprite whose base values
\* equal its current values and whose baseTimestamp equals its timestamp
\* leaves every base value and the baseTimestamp of the sprite as they were.
C21_AsStated ==
    [][(last'.op = "rebase" /\ last'.spriteIndex \in Valid(mesh))
        => \A before \in {Read(mesh, last'.spriteIndex)},
              after \in {Read(mesh', last'.spriteIndex)} :
              NoTransition(before)
                 => /\ \A A \in BaseProperties : after[A] = before[A]
                    /\ after.baseTimestamp = before.baseTimestamp]_vars

\* C21 (amended): such a rebase leaves every base value as it was, and the
\* baseTimestamp as it was when t <= timestamp(i); when t > timestamp(i) the
\* baseTimestamp becomes t, as the array of the base timestamp holds it.
C21_RebaseNoTransition ==
    [][(last'.op = "rebase" /\ last'.spriteIndex \in Valid(mesh))
        => \A before \in {Read(mesh, last'.spriteIndex)},
              after \in {Read(mesh', last'.spriteIndex)} :
              NoTransition(before)
                 => /\ \A A \in BaseProperties : after[A] = before[A]
                    /\ after.baseTimestamp
                          = IF RGt(last'.value, before.timestamp)
                            THEN ReadBack(mesh, "baseTimestamp", last'.value)
                            ELSE before.baseTimestamp]_vars

\* The moving sprite was rebased at the end of its window, which left it in
\* no transition with x = base x = 8; it has been rebased again, after the
\* window, and its base values are the same but its base timestamp is the
\* time of the second rebase.
C21_Witness ==
    /\ script.kind = "rebases"
    /\ Len(shown) = 2
    /\ shown[2].spriteIndex = 0
    /\ NoTransition(shown[2].before)
    /\ shown[2].before.baseX = Num(8)
    /\ shown[2].before.baseTimestamp = Num(Now + 4)
    /\ last.value = Num(Now + 8)
    /\ getBaseX(mesh, 0) = Num(8)
    /\ getBaseG(mesh, 0) = Num(128)
    /\ getBaseTimestamp(mesh, 0) = Num(Now + 8)

\* The sprite the last two calls of a run of rebases were made on, if they
\* were made on the same sprite and at the same time; {} if not.
RebasedTwice ==
    IF /\ script.kind = "rebases"
       /\ Len(shown) >= 2
       /\ shown[Len(shown)].spriteIndex = shown[Len(shown) - 1].spriteIndex
       /\ shown[Len(shown)].t = shown[Len(shown) - 1].t
    THEN {shown[Len(shown)].spriteIndex} \cap Valid(mesh)
    ELSE {}

\* C22 as stated: rebase(i, t) a second time, with no write in between,
\* leaves the base values and the baseTimestamp of the sprite as the first
\* left them, for any t and any monotonic easing.
C22_AsStated ==
    \A i \in RebasedTwice :
       \A once \in {shown[Len(shown)].before}, twice \in {Read(mesh, i)} :
          /\ \A A \in BaseProperties : twice[A] = once[A]
          /\ twice.baseTimestamp = once.baseTimestamp

\* The same for values the arrays hold as they are and the quadratic
\* ease-in: the sprite moving from x = 0 at Now to x = 8 at Now + 8, rebased
\* twice at Now + 4.
C22_AsStatedExactValues ==
    \A i \in RebasedTwice :
       (/\ mesh.material.easing = "quadIn"
        /\ shown[Len(shown)].t = Num(Now + 4)
        /\ shown[Len(shown) - 1].before.baseTimestamp = Num(Now)
        /\ shown[Len(shown) - 1].before.timestamp = Num(Now + 8)
        /\ shown[Len(shown) - 1].before.x = Num(8))
          => /\ getBaseX(mesh, i) = shown[Len(shown)].before.baseX
             /\ getBaseTimestamp(mesh, i)
                   = shown[Len(shown)].before.baseTimestamp


\* ---------------------------------------------- degenerate windows (C23)

\* rebase(i, t) reaches the call of applyEasing: neither of the two tests
\* before it has chosen the blend.
Eases(m, i, t) ==
    /\ ~RGe(t, getTimestamp(m, i))
    /\ ~RLe(t, getBaseTimestamp(m, i))

\* The argument rebase(i, t) gives applyEasing.
EasingArgument(m, i, t) ==
    RDiv(RSub(t, getBaseTimestamp(m, i)),
         RSub(getTimestamp(m, i), getBaseTimestamp(m, i)))

\* C23: every rebase(i, t) of a sprite of the mesh returns; it calls the
\* easing function only when baseTimestamp(i) < t < timestamp(i), the divisor
\* timestamp - baseTimestamp being then above 0 and the argument strictly
\* between 0 and 1; when timestamp(i) <= baseTimestamp(i) the easing function
\* is not called and the blend is 1 for t >= timestamp(i) and 0 otherwise.
C23_DegenerateWindows ==
    [][last'.op = "rebase" /\ last'.spriteIndex \in Valid(mesh)
       => \A i \in {last'.spriteIndex}, t \in {last'.value} :
             /\ last'.outcome = "returned"
             /\ IsNum(last'.blend)
             /\ Eases(mesh, i, t)
                  => /\ RLt(getBaseTimestamp(mesh, i), t)
                     /\ RLt(t, getTimestamp(mesh, i))
                     /\ RGt(RSub(getTimestamp(mesh, i),
                                 getBaseTimestamp(mesh, i)), Num(0))
                     /\ RGt(EasingArgument(mesh, i, t), Num(0))
                     /\ RLt(EasingArgument(mesh, i, t), Num(1))
                     /\ last'.blend
                          = applyEasing(mesh.material,
                                        EasingArgument(mesh, i, t))
             /\ RLe(getTimestamp(mesh, i), getBaseTimestamp(mesh, i))
                  => /\ ~Eases(mesh, i, t)
                     /\ last'.blend = IF RGe(t, getTimestamp(mesh, i))
                                      THEN Num(1) ELSE Num(0)
                     /\ \A A \in BaseProperties :
                           IsNum(Read(mesh', i)[A])]_vars

\* A rebase of the sprite whose window is inverted (baseTimestamp 8 ms and
\* timestamp 0 ms after the construction) has left the blend 1.
C23_Witness ==
    /\ last.op = "rebase"
    /\ last.spriteIndex = 0
    /\ last.value = Num(Now + 2)
    /\ last.blend = Num(1)
    /\ getTimestamp(mesh, 0) = Num(Now)
    /\ getX(mesh, 0) = getBaseX(mesh, 0)


\* ------------------------------------------------------- quad shape (C24)

MaxWrites == 2

\* Positions written to the first and the last sprite, the width and the
\* height of the sprites assigned by the caller (both are public fields),
\* and rebases, from the states a run starts in.
InitShape ==
    /\ \E st \in Starts :
          mesh = IF st[2] = "new" THEN Constructed(st[1])
                 ELSE Prepared(Constructed(st[1]), st[2])
    /\ sprites = <<>>
    /\ last = NoCall
    /\ ops = 0
    /\ pc = "free"
    /\ script = [kind |-> "shape"]
    /\ shown = <<>>

\* One step of the caller, recorded in `last`.
ShapeStep(op, spriteIndex, value, blend, m2) ==
    /\ ops < MaxWrites
    /\ ops' = ops + 1
    /\ mesh' = m2
    /\ last' = [op |-> op, spriteIndex |-> spriteIndex, value |-> value,
                value2 |-> Undefined, blend |-> blend, outcome |-> "returned"]
    /\ UNCHANGED <<sprites, pc, script, shown>>

NextShape ==
    \/ \E w \in {Num(3)} :
          ShapeStep("spriteWidth", 0, w, Undefined,
                    [mesh EXCEPT !.spriteWidth = w])
    \/ \E h \in {Num(2)} :
          ShapeStep("spriteHeight", 0, h, Undefined,
                    [mesh EXCEPT !.spriteHeight = h])
    \/ \E A \in {"x", "y", "z", "baseX", "baseY", "baseZ"},
          i \in {0, Capacity - 1}, v \in PositionValues :
          ShapeStep(Setters[A], i, v, Undefined, Set(mesh, A, i, v))
    \/ \E i \in {0, Capacity - 1}, t \in {Num(Now + 4)} :
          /\ Carried(rebase(mesh, i, t))
          /\ ShapeStep("rebase", i, t, rebaseBlend(mesh, i, t),
                       rebase(mesh, i, t))

SpecShape == InitShape /\ [][NextShape]_vars

\* The corners of sprite i in a position array agree edge by edge: A and D
\* hold one X, B and C one X, A and B one Y, C and D one Y, and the four
\* hold one Z.
EdgesAgree(data, i) ==
    \A o \in {i * POSITIONS_PER_SPRITE} :
       /\ data[o + AX] = data[o + DX]
       /\ data[o + BX] = data[o + CX]
       /\ data[o + AY] = data[o + BY_]
       /\ data[o + CY] = data[o + DY]
       /\ data[o + AZ] = data[o + BZ]
       /\ data[o + AZ] = data[o + CZ]
       /\ data[o + AZ] = data[o + DZ]

\* The low and the high edge of sprite i along X in a position array are
\* what a write of v with the width w stores; the same along Y with the
\* height h; the four corners hold the Z a write of v stores.
EdgesX(data, i, v, w) ==
    /\ data[i * POSITIONS_PER_SPRITE + AX] = Fround(v)
    /\ data[i * POSITIONS_PER_SPRITE + BX] = Fround(RAdd(v, w))

EdgesY(data, i, v, h) ==
    /\ data[i * POSITIONS_PER_SPRITE + AY] = Fround(v)
    /\ data[i * POSITIONS_PER_SPRITE + CY] = Fround(RAdd(v, h))

EdgesZ(data, i, v) == data[i * POSITIONS_PER_SPRITE + AZ] = Fround(v)

\* C24 as stated: in every state, for every sprite and for both position
\* arrays, corners A and D hold the X the getter returns and B and C that X
\* plus the spriteWidth of the mesh, A and B hold the Y the getter returns
\* and C and D that Y plus the spriteHeight, and the four corners one Z.
C24_AsStated ==
    \A i \in Valid(mesh) :
       /\ EdgesAgree(mesh.positionData, i)
       /\ EdgesAgree(mesh.basePositionData, i)
       /\ mesh.positionData[i * POSITIONS_PER_SPRITE + BX]
            = RAdd(getX(mesh, i), mesh.spriteWidth)
       /\ mesh.positionData[i * POSITIONS_PER_SPRITE + CY]
            = RAdd(getY(mesh, i), mesh.spriteHeight)
       /\ mesh.basePositionData[i * POSITIONS_PER_SPRITE + BX]
            = RAdd(getBaseX(mesh, i), mesh.spriteWidth)
       /\ mesh.basePositionData[i * POSITIONS_PER_SPRITE + CY]
            = RAdd(getBaseY(mesh, i), mesh.spriteHeight)

\* C24: in every state, for every sprite and for both position arrays, the
\* corners agree edge by edge (A and D one X, B and C one X, A and B one Y,
\* C and D one Y, one Z for the four). A write of v to X (by setX, setBaseX
\* or the base X that rebase stores) leaves fround(v) in A and D and
\* fround(v + spriteWidth) in B and C, with the spriteWidth of the mesh at
\* the call; the same for Y with spriteHeight; a write of v to Z leaves
\* fround(v) in the four corners. An assignment to spriteWidth or
\* spriteHeight leaves both arrays as they are.
C24_QuadShape ==
    /\ [](\A i \in Valid(mesh) :
             /\ EdgesAgree(mesh.positionData, i)
             /\ EdgesAgree(mesh.basePositionData, i))
    /\ [][\A i \in {last'.spriteIndex}, v \in {last'.value},
             b \in {last'.blend} :
             /\ last'.op = "setX"
                  => EdgesX(mesh'.positionData, i, v, mesh.spriteWidth)
             /\ last'.op = "setY"
                  => EdgesY(mesh'.positionData, i, v, mesh.spriteHeight)
             /\ last'.op = "setZ" => EdgesZ(mesh'.positionData, i, v)
             /\ last'.op = "setBaseX"
                  => EdgesX(mesh'.basePositionData, i, v, mesh.spriteWidth)
             /\ last'.op = "setBaseY"
                  => EdgesY(mesh'.basePositionData, i, v, mesh.spriteHeight)
             /\ last'.op = "setBaseZ" => EdgesZ(mesh'.basePositionData, i, v)
             /\ last'.op = "rebase"
                  => /\ EdgesX(mesh'.basePositionData, i,
                               lerp(b, getX(mesh, i), getBaseX(mesh, i)),
                               mesh.spriteWidth)
                     /\ EdgesY(mesh'.basePositionData, i,
                               lerp(b, getY(mesh, i), getBaseY(mesh, i)),
                               mesh.spriteHeight)
                     /\ EdgesZ(mesh'.basePositionData, i,
                               lerp(b, getZ(mesh, i), getBaseZ(mesh, i)))
             /\ last'.op \in {"spriteWidth", "spriteHeight"}
                  => /\ mesh'.positionData = mesh.positionData
                     /\ mesh'.basePositionData = mesh.basePositionData]_vars

\* The sprite width has been assigned 3 and 1/10 then written to the X of
\* sprite 0: corner A holds fround(1/10), corner B fround(1/10 + 3), which
\* is not fround(1/10) + 3.
C24_Witness ==
    /\ last.op = "setX"
    /\ last.spriteIndex = 0
    /\ last.value = <<1, 10>>
    /\ mesh.spriteWidth = Num(3)
    /\ mesh.positionData[AX] = Fround(<<1, 10>>)
    /\ mesh.positionData[BX] = Fround(<<31, 10>>)
    /\ mesh.positionData[BX] # RAdd(getX(mesh, 0), mesh.spriteWidth)


\* ------------------------------------------------- scalar replication (C25)

\* The four cells of sprite i in an array of one value a corner hold one
\* value.
CornersAgree(data, i) ==
    \A c \in {BV, CV, DV} :
       data[i * VERTICES_PER_SPRITE + c] = data[i * VERTICES_PER_SPRITE + AV]

\* The four corners of sprite i in an array of colours hold one value of
\* each channel.
ColorsAgree(data, i) ==
    \A c \in {BR, CR, DR} , ch \in {AR, AG, AB, AA} :
       data[i * COLORS_PER_SPRITE + c + ch] = data[i * COLORS_PER_SPRITE + ch]

\* C25: in every state, for every sprite of the mesh, the four corners hold
\* one value of each colour channel, of the opacity, of the timestamp, of
\* the texture index and of the texture timestamp, current and base.
C25_ScalarReplication ==
    \A i \in Valid(mesh) :
       /\ ColorsAgree(mesh.colorData, i)
       /\ ColorsAgree(mesh.baseColorData, i)
       /\ CornersAgree(mesh.opacityData, i)
       /\ CornersAgree(mesh.baseOpacityData, i)
       /\ CornersAgree(mesh.timestampData, i)
       /\ CornersAgree(mesh.baseTimestampData, i)
       /\ CornersAgree(mesh.textureIndexData, i)
       /\ CornersAgree(mesh.baseTextureIndexData, i)
       /\ CornersAgree(mesh.textureTimestampData, i)
       /\ CornersAgree(mesh.baseTextureTimestampData, i)

\* The opacity 1/3 has been written to the last sprite: the four corners of
\* the sprite hold fround(1/3).
C25_Witness ==
    /\ last.op = "setOpacity"
    /\ last.spriteIndex = Capacity - 1
    /\ \A k \in Cells("opacity", Capacity - 1) :
          mesh.opacityData[k] = Fround(<<1, 3>>)


\* ------------------------------------------------------ initial state (C26)

\* What the getter of property A returns for a sprite no setter has written:
\* the construction timestamp for the four timestamps, 0 for the others (0
\* is the default texture index).
InitialValue(m, A) ==
    IF A \in TimeProperties THEN m.constructionTimestamp
    ELSE Num(DEFAULT_TEXTURE_INDEX)

\* C26: as long as createSprite is the only operation called on a
\* constructed mesh, nextIndex is the number of sprites created (0 after the
\* construction) and for every sprite of the mesh every position, colour and
\* opacity getter, current and base, returns 0, both texture indexes are 0
\* and the four timestamp getters return constructionTimestamp; and a call of
\* createSprite in any state changes no value a getter returns.
C26_InitialState ==
    /\ [](ops = 0
            => /\ mesh.nextIndex = Len(sprites)
               /\ \A i \in Valid(mesh), A \in Properties :
                     Read(mesh, i)[A] = InitialValue(mesh, A))
    /\ [][last'.op = "createSprite"
            => /\ mesh'.nextIndex = mesh.nextIndex + 1
               /\ \A i \in Valid(mesh) : Read(mesh', i) = Read(mesh, i)]_vars

\* Two sprites have been created and nothing else called: the second one
\* reads opacity 0, texture index 0 and the construction timestamp.
C26_Witness ==
    /\ ops = 0
    /\ Len(sprites) = 2
    /\ mesh.nextIndex = 2
    /\ sprites[2].spriteIndex = 1
    /\ getOpacity(mesh, 1) = Num(0)
    /\ getTextureIndex(mesh, 1) = Num(0)
    /\ getTimestamp(mesh, 1) = Num(Now)
    /\ getBaseTextureTimestamp(mesh, 1) = mesh.constructionTimestamp


\* ------------------------------------------- transparency of rebase (C27)

\* What the array of blended attribute A loses of the value the renderer
\* draws for sprite i at time t, were that value stored in it.
StoringLoss(m, A, i, t) ==
    RSub(Rendered(m, A, i, t), Stored(A, Rendered(m, A, i, t)))

\* The values the renderer draws of attribute A of sprite i at time t from
\* the meshes m1 and m2 are numbers the model's arithmetic carries.
DrawnCarried(m1, m2, A, i, t) ==
    /\ IsNum(Rendered(m1, A, i, t))
    /\ IsNum(Rendered(m2, A, i, t))

\* What is drawn of attribute A of sprite i at time t2 after a rebase at
\* time t that left the mesh m2 from m1: what was drawn before less the
\* share 1 - b' of what the array of A lost of the value drawn at t.
DrawnLess(m1, m2, A, i, t, t2) ==
    RSub(Rendered(m1, A, i, t2),
         RMul(StoringLoss(m1, A, i, t),
              RSub(Num(1), ShaderBlend(m2, i, t2))))

Later(t1, t2) == IF RGe(t1, t2) THEN t1 ELSE t2

C28_WitnessStoredAsCurrent ==
    /\ Len(shown) = 1
    /\ shown[1].spriteIndex = 0
    /\ shown[1].t = Num(Now + Pow2(24) + 1)
    /\ shown[1].before.baseTimestamp = Num(Now)
    /\ shown[1].before.timestamp = Num(Now + Pow2(24))
    /\ getBaseTimestamp(mesh, 0) = getTimestamp(mesh, 0)

NeverPositioned(m, j) ==
    \A c \in 0..(POSITIONS_PER_SPRITE - 1) :
       m.positionData[j * POSITIONS_PER_SPRITE + c] = Num(0)

\* C29: findSprites(x, y) returns the slots of [0, capacity) whose quad in
\* positionData holds the point and no other index, whatever nextIndex is:
\* also slots at or above nextIndex, which createSprite has not handed out;
\* a slot whose position cells are all 0 is returned exactly when x = 0 and
\* y = 0.
C29_FindSpritesUncreated ==
    [][last'.op = "findSprites"
        => \A x \in {last'.value}, y \in {last'.value2},
              found \in {shown'[Len(shown')].found} :
              /\ Found(found) \subseteq Valid(mesh)
              /\ \A j \in Valid(mesh) :
                    /\ j \in Found(found) <=> InQuad(mesh, j, x, y)
                    /\ NeverPositioned(mesh, j)
                          => (j \in Found(found)
                                <=> (x = Num(0) /\ y = Num(0)))]_vars

\* No sprite has been created, the first slot has been placed away from the
\* origin, and findSprites(0, 0) has returned the last slot, whose position
\* was never written.
C29_Witness ==
    /\ script.kind = "find"
    /\ pc = "done"
    /\ mesh.nextIndex = 0
    /\ script.spriteIndex = 0
    /\ shown[1].x = Num(0)
    /\ shown[1].y = Num(0)
    /\ NeverPositioned(mesh, Capacity - 1)
    /\ shown[1].found = <<Capacity - 1>>


\* --------------------------------------------- colours as bytes (C30)

\* The cells of an array of colours are integers of [0, 255].
HoldsBytes(data) == \A k \in DOMAIN data : data[k] \in 0..255

=============================================================================
